---- MODULE Spec2Model ----
(***************************************************************************)
(* Verification model of the AL HiLo translation extension.                *)
(*                                                                         *)
(* Text is a sequence of tokens.  A token is a pair <<kind, payload>>:     *)
(* one character of text (<<"c", ch>>) or one whole XML tag.  The regular  *)
(* expressions of the source only ever look at a tag as a unit             *)
(* ("<target\b[^>]*>"), so a tag is atomic here; text content is kept      *)
(* character by character because escaping, normalisation and the          *)
(* replacement patterns of String.prototype.replace work on characters.    *)
(***************************************************************************)
EXTENDS Integers, Sequences, FiniteSets, TLC

(***************************************************************************)
(* Bounds of the model.                                                    *)
(***************************************************************************)
MaxTextLen == 2

(***************************************************************************)
(* Tokens.                                                                 *)
(***************************************************************************)
Ch(c) == <<"c", c>>
TU(id) == <<"tu", id>>
TUC == <<"/tu", "">>
SRC == <<"src", "">>
SRCC == <<"/src", "">>
TGT(attrs) == <<"tgt", attrs>>
TGTC == <<"/tgt", "">>
TGTS(attrs) == <<"tgt/", attrs>>
NOTE(from) == <<"note", from>>
NOTEC == <<"/note", "">>
XTAG(name) == <<"x", name>>

NL == Ch("\n")
SP == Ch(" ")

Cs(q) == [i \in 1..Len(q) |-> Ch(q[i])]

\* /\s/ on one token
IsWs(t) == t \in {SP, NL}

\* toLowerCase on one string of the model's vocabulary
LowerStr(w) ==
  CASE w = "A" -> "a"
    [] w = "Table" -> "table"
    [] w = "TableExtension" -> "tableextension"
    [] w = "Page" -> "page"
    [] w = "PageExtension" -> "pageextension"
    [] w = "Codeunit" -> "codeunit"
    [] w = "Field" -> "field"
    [] w = "Control" -> "control"
    [] w = "Action" -> "action"
    [] w = "Column" -> "column"
    [] w = "Property" -> "property"
    [] w = "Caption" -> "caption"
    [] w = "ToolTip" -> "tooltip"
    [] w = "Item" -> "item"
    [] w = "ItemList" -> "itemlist"
    [] OTHER -> w

\* toLowerCase on one token: text is lowered, a tag of the model is lower
\* case already
LowerTok(t) == IF t[1] = "c" THEN <<"c", LowerStr(t[2])>> ELSE t

HasPrefix(s, p) == Len(s) >= Len(p) /\ SubSeq(s, 1, Len(p)) = p

\* String.prototype.replace(/pat/g, rep) for a literal pattern
RECURSIVE ReplaceAll(_, _, _)
ReplaceAll(s, pat, rep) ==
  IF s = <<>> THEN <<>>
  ELSE IF HasPrefix(s, pat)
       THEN rep \o ReplaceAll(SubSeq(s, Len(pat) + 1, Len(s)), pat, rep)
       ELSE <<s[1]>> \o ReplaceAll(Tail(s), pat, rep)

E_AMP == Cs(<<"&", "a", "m", "p", ";">>)
E_LT == Cs(<<"&", "l", "t", ";">>)
E_GT == Cs(<<"&", "g", "t", ";">>)
E_QUOT == Cs(<<"&", "q", "u", "o", "t", ";">>)
E_APOS == Cs(<<"&", "a", "p", "o", "s", ";">>)
E_NBSP == Cs(<<"&", "n", "b", "s", "p", ";">>)

\* The brackets of a CDATA section
CDATA == <<"cdata", "">>
CDATAC == <<"/cdata", "">>

xmlEscape(str) ==
  ReplaceAll(ReplaceAll(ReplaceAll(ReplaceAll(ReplaceAll(str,
    <<Ch("&")>>, E_AMP), <<Ch("<")>>, E_LT), <<Ch(">")>>, E_GT),
    <<Ch("\"")>>, E_QUOT), <<Ch("'")>>, E_APOS)

xmlUnescape(str) ==
  ReplaceAll(ReplaceAll(ReplaceAll(ReplaceAll(ReplaceAll(str,
    E_APOS, <<Ch("'")>>), E_QUOT, <<Ch("\"")>>), E_GT, <<Ch(">")>>),
    E_LT, <<Ch("<")>>), E_AMP, <<Ch("&")>>)

\* replace(/\s+/g, ' ')
RECURSIVE CollapseWs(_)
CollapseWs(s) ==
  IF s = <<>> THEN <<>>
  ELSE IF IsWs(s[1])
       THEN IF Len(s) >= 2 /\ IsWs(s[2])
            THEN CollapseWs(Tail(s))
            ELSE <<SP>> \o CollapseWs(Tail(s))
       ELSE <<s[1]>> \o CollapseWs(Tail(s))

RECURSIVE TrimLeft(_)
TrimLeft(s) == IF s # <<>> /\ IsWs(s[1]) THEN TrimLeft(Tail(s)) ELSE s

RECURSIVE TrimRight(_)
TrimRight(s) ==
  IF s # <<>> /\ IsWs(s[Len(s)]) THEN TrimRight(SubSeq(s, 1, Len(s) - 1)) ELSE s

Trim(s) == TrimRight(TrimLeft(s))

Lower(s) == [i \in 1..Len(s) |-> LowerTok(s[i])]

normalizeForCompare(text) == Lower(Trim(CollapseWs(text)))

(***************************************************************************)
(* Regular-expression scanning over tokens.                                *)
(***************************************************************************)
Kind(t) == t[1]

MinOf(S) == CHOOSE i \in S : \A j \in S : i <= j

\* first index >= from whose token is tok, or 0
FirstTok(s, from, tok) ==
  LET I == {i \in from..Len(s) : s[i] = tok}
  IN IF I = {} THEN 0 ELSE MinOf(I)

\* The leftmost match of  <open\b[^>]*> [\s\S]*? <close>  where the opening
\* tag's kind is in kinds: <<i, j>>, the opening and the closing token, or
\* <<0, 0>>.  "<target/>" also matches "<target\b[^>]*>".
ElementMatch(s, kinds, close) ==
  LET I == {i \in 1..Len(s) : Kind(s[i]) \in kinds /\ FirstTok(s, i + 1, close) # 0}
  IN IF I = {} THEN <<0, 0>>
     ELSE <<MinOf(I), FirstTok(s, MinOf(I) + 1, close)>>

TargetOpenKinds == {"tgt", "tgt/"}

\* targetRe = /<target\b[^>]*>([\s\S]*?)<\/target>/i
targetRe(unit) == ElementMatch(unit, TargetOpenKinds, TGTC)

\* targetSelfClosingRe = /<target\b[^>]*\/>/i : index of the match or 0
targetSelfClosingRe(unit) ==
  LET I == {i \in 1..Len(unit) : Kind(unit[i]) = "tgt/"}
  IN IF I = {} THEN 0 ELSE MinOf(I)

\* sourceRe = /<source\b[^>]*>[\s\S]*?<\/source>/i
sourceRe(unit) == ElementMatch(unit, {"src"}, SRCC)

\* The replacement patterns of String.prototype.replace(regexp, string):
\* $$ is a dollar sign, $& the match, $` and $' the text before and after
\* it, $1 the first group when the expression has one.
RECURSIVE GetSubstitution(_, _, _, _, _)
GetSubstitution(rep, matched, groups, pre, post) ==
  IF rep = <<>> THEN <<>>
  ELSE IF rep[1] = Ch("$") /\ Len(rep) >= 2
       THEN LET rest == SubSeq(rep, 3, Len(rep))
                more == GetSubstitution(rest, matched, groups, pre, post)
            IN CASE rep[2] = Ch("$") -> <<Ch("$")>> \o more
                 [] rep[2] = Ch("&") -> matched \o more
                 [] rep[2] = Ch("`") -> pre \o more
                 [] rep[2] = Ch("'") -> post \o more
                 [] rep[2] = Ch("1") /\ Len(groups) >= 1 -> groups[1] \o more
                 [] OTHER -> <<rep[1]>> \o
                      GetSubstitution(Tail(rep), matched, groups, pre, post)
       ELSE <<rep[1]>> \o GetSubstitution(Tail(rep), matched, groups, pre, post)

\* s.replace(re, rep) for the one match <<i, j>> of re in s
ReplaceMatch(s, i, j, rep, groups) ==
  LET pre == SubSeq(s, 1, i - 1)
      post == SubSeq(s, j + 1, Len(s))
  IN pre \o GetSubstitution(rep, SubSeq(s, i, j), groups, pre, post) \o post

(***************************************************************************)
(* The document mutator of applyCorrectionsFromCosmos.                     *)
(***************************************************************************)
ATTR_NT == "state=needs-translation"
ATTR_UC == "state=translated confidence=1.00 translationSource=userCorrection"

\* /\n(\s*)<open\b/ : the group of the leftmost match, or <<"none">>
IndentMatch(unit, kinds) ==
  LET Next(p) == MinOf({k \in (p + 1)..(Len(unit) + 1) :
                          k = Len(unit) + 1 \/ ~IsWs(unit[k])})
      P == {p \in 1..Len(unit) :
              /\ unit[p] = NL
              /\ Next(p) <= Len(unit)
              /\ Kind(unit[Next(p)]) \in kinds}
  IN IF P = {} THEN <<"none">>
     ELSE SubSeq(unit, MinOf(P) + 1, Next(MinOf(P)) - 1)

detectIndent(unit) ==
  LET m1 == IndentMatch(unit, {"src"})
      m2 == IndentMatch(unit, TargetOpenKinds)
  IN IF m1 # <<"none">> THEN m1
     ELSE IF m2 # <<"none">> THEN m2
     ELSE <<SP, SP, SP, SP>>

\* The target element of a unit is rewritten, or inserted after the source
updateUnitTarget(unit, translated) ==
  LET safeTranslated == xmlEscape(translated)
      targetTag == <<TGT(ATTR_UC)>> \o safeTranslated \o <<TGTC>>
      existingTarget == targetRe(unit)
      selfClosing == targetSelfClosingRe(unit)
      src == sourceRe(unit)
  IN IF existingTarget # <<0, 0>>
     THEN LET inner == SubSeq(unit, existingTarget[1] + 1, existingTarget[2] - 1)
              current == normalizeForCompare(xmlUnescape(inner))
          IN IF current = normalizeForCompare(translated)
             THEN unit
             ELSE ReplaceMatch(unit, existingTarget[1], existingTarget[2],
                               targetTag, <<inner>>)
     ELSE IF selfClosing # 0
     THEN ReplaceMatch(unit, selfClosing, selfClosing, targetTag, <<>>)
     ELSE IF src # <<0, 0>>
     THEN SubSeq(unit, 1, src[2]) \o <<NL>> \o detectIndent(unit) \o targetTag
            \o SubSeq(unit, src[2] + 1, Len(unit))
     ELSE unit

\* unitRe = /<trans-unit\b[^>]*\bid="([^"]+)"[^>]*>[\s\S]*?<\/trans-unit>/gi
\* the leftmost match in s: an opening tag that carries an id
unitRe(s) ==
  LET I == {i \in 1..Len(s) :
              Kind(s[i]) = "tu" /\ s[i][2] # "" /\ FirstTok(s, i + 1, TUC) # 0}
  IN IF I = {} THEN <<0, 0>>
     ELSE <<MinOf(I), FirstTok(s, MinOf(I) + 1, TUC)>>

NoResult ==
  [text |-> <<>>, updated |-> 0, unchanged |-> 0,
   updatedUnits |-> {}, unchangedUnits |-> {}]

\* A mutant of applyUpdatesToXliff: a unit without an update of its own is
\* given the update of some other unit.
RECURSIVE applyUpdatesToAll(_, _)
applyUpdatesToAll(content, updates) ==
  LET m == unitRe(content)
  IN IF m = <<0, 0>> \/ DOMAIN updates = {}
     THEN [NoResult EXCEPT !.text = content]
     ELSE LET unit == SubSeq(content, m[1], m[2])
              any == CHOOSE k \in DOMAIN updates : TRUE
              rest == applyUpdatesToAll(SubSeq(content, m[2] + 1, Len(content)), updates)
              replaced == updateUnitTarget(unit, updates[any].translated)
          IN [rest EXCEPT !.text = SubSeq(content, 1, m[1] - 1) \o replaced \o @,
                          !.updated = @ + (IF replaced = unit THEN 0 ELSE 1)]

RECURSIVE applyUpdatesToXliff(_, _)
applyUpdatesToXliff(content, updates) ==
  LET m == unitRe(content)
  IN IF m = <<0, 0>>
     THEN [NoResult EXCEPT !.text = content]
     ELSE LET unit == SubSeq(content, m[1], m[2])
              unitId == content[m[1]][2]
              rest == applyUpdatesToXliff(SubSeq(content, m[2] + 1, Len(content)), updates)
              pre == SubSeq(content, 1, m[1] - 1)
          IN IF unitId \notin DOMAIN updates
             THEN [rest EXCEPT !.text = pre \o unit \o @]
             ELSE LET replaced == updateUnitTarget(unit, updates[unitId].translated)
                  IN IF replaced = unit
                     THEN [rest EXCEPT !.text = pre \o replaced \o @,
                                       !.unchanged = @ + 1,
                                       !.unchangedUnits = @ \cup {unitId}]
                     ELSE [rest EXCEPT !.text = pre \o replaced \o @,
                                       !.updated = @ + 1,
                                       !.updatedUnits = @ \cup {unitId}]

(***************************************************************************)
(* The candidate matcher (xliffMatcher).  A confidence is kept in          *)
(* thousandths (0.5 is 500) and a weight in tenths (0.9 is 9).             *)
(***************************************************************************)
PROPERTY_CAPTION == "2879900210"
PROPERTY_TOOLTIP == "1295455071"

\* \d+ and \w+ on one word of a unit id
Digits == {"1", "2", "100", "200", "300", PROPERTY_CAPTION, PROPERTY_TOOLTIP}
IsNum(w) == w \in Digits
IsWord(w) == w \notin {"-", "", "bad id"}

NoParse == [ok |-> FALSE]

\* fullPattern, then simplePattern, on the words of the id
parseTransUnitId(id) ==
  IF /\ Len(id) = 8
     /\ IsWord(id[1]) /\ IsNum(id[2]) /\ id[3] = "-"
     /\ IsWord(id[4]) /\ IsNum(id[5]) /\ id[6] = "-"
     /\ id[7] = "Property" /\ IsNum(id[8])
  THEN [ok |-> TRUE, objectType |-> id[1], objectId |-> id[2],
        elementType |-> id[4], elementId |-> id[5], propertyId |-> id[8]]
  ELSE IF /\ Len(id) = 5
          /\ IsWord(id[1]) /\ IsNum(id[2]) /\ id[3] = "-"
          /\ id[4] = "Property" /\ IsNum(id[5])
  THEN [ok |-> TRUE, objectType |-> id[1], objectId |-> id[2],
        elementType |-> "", elementId |-> "", propertyId |-> id[5]]
  ELSE NoParse

\* /\w/ on one token
NonWordChars == {" ", "\n", "&", "$", "-", "<", ">", ";", "'", "\"", "."}
IsWordChar(t) == t[1] = "c" /\ t[2] \notin NonWordChars

\* replace(/<!\[CDATA\[([\s\S]*?)\]\]>/g, '$1'): every section is unwrapped
RECURSIVE UnwrapCdata(_)
UnwrapCdata(s) ==
  IF FirstTok(s, 1, CDATA) # 0 /\ FirstTok(s, FirstTok(s, 1, CDATA) + 1, CDATAC) # 0
  THEN SubSeq(s, 1, FirstTok(s, 1, CDATA) - 1)
         \o SubSeq(s, FirstTok(s, 1, CDATA) + 1,
                   FirstTok(s, FirstTok(s, 1, CDATA) + 1, CDATAC) - 1)
         \o UnwrapCdata(SubSeq(s, FirstTok(s, FirstTok(s, 1, CDATA) + 1, CDATAC) + 1,
                               Len(s)))
  ELSE s

\* decodeXmlEntities of the matcher: CDATA sections, then the named entities
\* with the ampersand last (the texts of the model hold no numeric entity)
\* The numeric character references of "&": &#x26; and &#38;
R_HEX == Cs(<<"&", "#", "x", "2", "6", ";">>)

R_DEC == Cs(<<"&", "#", "3", "8", ";">>)

decodeXmlEntities(s) ==
  ReplaceAll(ReplaceAll(ReplaceAll(ReplaceAll(ReplaceAll(ReplaceAll(
    ReplaceAll(ReplaceAll(UnwrapCdata(s), R_HEX, <<Ch("&")>>), R_DEC, <<Ch("&")>>),
    E_NBSP, <<SP>>), E_LT, <<Ch("<")>>), E_GT, <<Ch(">")>>), E_QUOT, <<Ch("\"")>>),
    E_APOS, <<Ch("'")>>), E_AMP, <<Ch("&")>>)

\* replace(/<[^>]+>/g, ' '): a tag token, or "<" ... ">" spelled in text
RECURSIVE StripTags(_)
StripTags(s) ==
  IF s = <<>> THEN <<>>
  ELSE IF s[1][1] # "c" THEN <<SP>> \o StripTags(Tail(s))
  ELSE IF s[1] = Ch("<") /\ FirstTok(s, 3, Ch(">")) # 0
       THEN <<SP>> \o StripTags(SubSeq(s, FirstTok(s, 3, Ch(">")) + 1, Len(s)))
  ELSE <<s[1]>> \o StripTags(Tail(s))

\* replace(/&(?=\w)/g, '')
RECURSIVE StripHotkeys(_)
StripHotkeys(s) ==
  IF s = <<>> THEN <<>>
  ELSE IF s[1] = Ch("&") /\ Len(s) >= 2 /\ IsWordChar(s[2])
       THEN StripHotkeys(Tail(s))
       ELSE <<s[1]>> \o StripHotkeys(Tail(s))

normalizeText(s) ==
  Lower(Trim(CollapseWs(StripHotkeys(StripTags(decodeXmlEntities(s))))))

\* The text fields of a context with their weights, in the order of
\* findXliffCandidatesFromDomWithDiagnostics
TextEntries(context) ==
  << [text |-> context.translatedText, weight |-> 10, source |-> "translatedText"],
     [text |-> context.innerText, weight |-> 9, source |-> "innerText"],
     [text |-> context.titleAttribute, weight |-> 8, source |-> "titleAttribute"],
     [text |-> context.ariaLabel, weight |-> 8, source |-> "ariaLabel"],
     [text |-> context.placeholder, weight |-> 7, source |-> "placeholder"] >>

\* the place in map (a Map, in insertion order) of the text candidate with
\* the given normalized text, or 0
IndexOfNormalized(map, normalized) ==
  IF \E i \in 1..Len(map) : map[i].normalized = normalized
  THEN MinOf({i \in 1..Len(map) : map[i].normalized = normalized})
  ELSE 0

\* the place in map of the candidate of the given unit, or 0
IndexOfUnitId(map, unitId) ==
  IF \E i \in 1..Len(map) : map[i].unitId = unitId
  THEN MinOf({i \in 1..Len(map) : map[i].unitId = unitId})
  ELSE 0

\* map.set(normalized, ...) unless the map holds an entry of at least the weight
setTextCandidate(map, entry, raw, normalized, k) ==
  IF k = 0
  THEN Append(map, [text |-> raw, normalized |-> normalized,
                    weight |-> entry.weight, source |-> entry.source])
  ELSE IF entry.weight > map[k].weight
  THEN [map EXCEPT ![k] = [text |-> raw, normalized |-> normalized,
                           weight |-> entry.weight, source |-> entry.source]]
  ELSE map

collectNormalized(map, entry, raw, normalized) ==
  IF normalized = <<>> THEN map
  ELSE setTextCandidate(map, entry, raw, normalized,
                        IndexOfNormalized(map, normalized))

collectEntry(map, entry, raw) ==
  IF raw = <<>> THEN map ELSE collectNormalized(map, entry, raw, normalizeText(raw))

RECURSIVE collectInto(_, _)
collectInto(map, entries) ==
  IF entries = <<>> THEN map
  ELSE collectInto(collectEntry(map, entries[1], Trim(entries[1].text)), Tail(entries))

collectTextCandidates(entries) == collectInto(<<>>, entries)

getExpectedPropertyId(context) ==
  IF context.isToolTip = "true" THEN PROPERTY_TOOLTIP
  ELSE IF context.isToolTip = "false" THEN PROPERTY_CAPTION
  ELSE IF LowerStr(context.propertyType) = "tooltip" THEN PROPERTY_TOOLTIP
  ELSE IF LowerStr(context.propertyType) = "caption" THEN PROPERTY_CAPTION
  ELSE ""

getContextElementTypes(context) ==
  (IF context.elementType # "" THEN {context.elementType} ELSE {})
    \cup (IF LowerStr(context.elementType) = "column" THEN {"Field", "Control"} ELSE {})
    \cup (IF context.uiArea = "ActionBar" THEN {"Action"} ELSE {})
    \cup (IF context.uiArea = "List" THEN {"Column", "Field", "Control"} ELSE {})
    \cup (IF context.uiArea \in {"ContentArea", "Group", "FieldGroup"}
          THEN {"Field", "Control"} ELSE {})
    \cup (IF LowerStr(context.htmlTag) = "button" THEN {"Action"} ELSE {})
    \cup (IF LowerStr(context.htmlTag) \in {"input", "select", "textarea"}
          THEN {"Field", "Control"} ELSE {})
    \cup (IF LowerStr(context.ariaRole) = "columnheader"
          THEN {"Column", "Field", "Control"} ELSE {})
    \cup (IF LowerStr(context.ariaRole) = "button" THEN {"Action"} ELSE {})
    \cup (IF "inActionBar" \in context.flags THEN {"Action"} ELSE {})
    \cup (IF "inGrid" \in context.flags THEN {"Column", "Field", "Control"} ELSE {})
    \cup (IF context.flags \cap {"inFieldGroup", "inContentArea"} # {}
          THEN {"Field", "Control"} ELSE {})

matchesElementType(xliffType, bcType) ==
  LET xliffLower == LowerStr(xliffType)
      bcLower == LowerStr(bcType)
  IN /\ xliffType # ""
     /\ \/ xliffLower = bcLower
        \/ xliffLower = "control" /\ bcLower = "field"
        \/ bcLower = "column" /\ xliffLower \in {"column", "control", "field"}

matchesAnyElementType(xliffType, bcTypes) ==
  \E bcType \in bcTypes : matchesElementType(xliffType, bcType)

\* the suffixes of deriveTableNameFromPage, in its order
PageSuffixes == <<"list", "card", "subpage", "subform", "part", "factbox", "setup">>

\* name.replace(/\s*suffix$/, '') on a name given word by word: a last word
\* that is the suffix goes, with the space before it; a last word that ends
\* in the suffix loses it
StemOf(w, suffix) ==
  CASE w = "itemlist" /\ suffix = "list" -> "item"
    [] OTHER -> w

StripSuffix(name, suffix) ==
  IF name = <<>> THEN name
  ELSE IF name[Len(name)] = Ch(suffix)
       THEN TrimRight(SubSeq(name, 1, Len(name) - 1))
       ELSE [name EXCEPT ![Len(name)] = Ch(StemOf(name[Len(name)][2], suffix))]

RECURSIVE StripSuffixes(_, _)
StripSuffixes(name, suffixes) ==
  IF suffixes = <<>> THEN name
  ELSE StripSuffixes(StripSuffix(name, suffixes[1]), Tail(suffixes))

deriveTableNameFromPage(pageNameLower) == Trim(StripSuffixes(pageNameLower, PageSuffixes))

\* replace(/[^a-z0-9]/g, '') on a lowered name: the letters and digits, joined
RECURSIVE AlnumOnly(_)
AlnumOnly(name) ==
  IF name = <<>> THEN ""
  ELSE IF IsWordChar(name[1]) THEN name[1][2] \o AlnumOnly(Tail(name))
       ELSE AlnumOnly(Tail(name))

\* noteLower.startsWith(`${kind} ${name} -`)
NoteStarts(noteLower, kind, name) ==
  HasPrefix(noteLower, <<Ch(kind), SP>> \o name \o <<SP, Ch("-")>>)

\* /^(table|tableextension)\s+(.+?)\s+-\s+/ : the name group, or <<>>
NoteTableName(noteLower) ==
  LET J == {j \in 4..(Len(noteLower) - 2) :
              /\ IsWs(noteLower[j]) /\ noteLower[j + 1] = Ch("-")
              /\ IsWs(noteLower[j + 2])}
  IN IF /\ Len(noteLower) >= 6
        /\ noteLower[1] \in {Ch("table"), Ch("tableextension")}
        /\ IsWs(noteLower[2])
        /\ J # {}
     THEN Trim(SubSeq(noteLower, 3, MinOf(J) - 1))
     ELSE <<>>

isPageMatch(context, noteLower) ==
  /\ context.pageName # <<>>
  /\ \/ NoteStarts(noteLower, "page", Lower(context.pageName))
     \/ NoteStarts(noteLower, "pageextension", Lower(context.pageName))

isTableMatch(context, noteLower) ==
  IF context.tableName # <<>>
  THEN LET tableNameLower == Lower(context.tableName)
       IN \/ NoteStarts(noteLower, "table", tableNameLower)
          \/ NoteStarts(noteLower, "tableextension", tableNameLower)
          \/ /\ NoteTableName(noteLower) # <<>>
             /\ AlnumOnly(tableNameLower) = AlnumOnly(NoteTableName(noteLower))
  ELSE IF context.pageName # <<>>
  THEN LET possibleTableName == deriveTableNameFromPage(Lower(context.pageName))
       IN /\ possibleTableName # <<>>
          /\ \/ NoteStarts(noteLower, "table", possibleTableName)
             \/ NoteStarts(noteLower, "tableextension", possibleTableName)
  ELSE FALSE

\* /<note\b[^>]*from="Xliff Generator"[^>]*>([\s\S]*?)<\/note>/i, trimmed
NoteOf(unit) ==
  LET I == {i \in 1..Len(unit) :
              unit[i] = NOTE("Xliff Generator") /\ FirstTok(unit, i + 1, NOTEC) # 0}
  IN IF I = {} THEN <<>>
     ELSE Trim(SubSeq(unit, MinOf(I) + 1, FirstTok(unit, MinOf(I) + 1, NOTEC) - 1))

Min(a, b) == IF a < b THEN a ELSE b

NoScan ==
  [map |-> <<>>, textMatchCount |-> 0, propertyFilteredCount |-> 0,
   pageTableFilteredCount |-> 0, sampleTextMatches |-> <<>>]

\* A mutant of setCandidate: the candidate seen last replaces the one held.
setCandidateLast(st, candidate, k) ==
  IF k = 0 THEN [st EXCEPT !.map = Append(@, candidate)]
  ELSE [st EXCEPT !.map[k] = candidate]

\* candidateMap.set(unitId, candidate) unless the map holds a candidate of
\* the unit with at least its confidence; k is the place of that candidate
setCandidate(st, candidate, k) ==
  IF k = 0 THEN [st EXCEPT !.map = Append(@, candidate)]
  ELSE IF st.map[k].confidence < candidate.confidence
  THEN [st EXCEPT !.map[k] = candidate]
  ELSE st

\* sampleTextMatches.push(note || unitId) while fewer than five are held
addSample(st, note, unitId) ==
  IF Len(st.sampleTextMatches) < 5
  THEN [st EXCEPT !.sampleTextMatches = Append(@, IF note # <<>> THEN note ELSE unitId)]
  ELSE st

\* the text of the first source element, entities decoded
SourceOf(unit) ==
  IF sourceRe(unit) = <<0, 0>> THEN <<>>
  ELSE decodeXmlEntities(SubSeq(unit, sourceRe(unit)[1] + 1, sourceRe(unit)[2] - 1))

\* the text of the first target element
TargetOf(unit) == SubSeq(unit, targetRe(unit)[1] + 1, targetRe(unit)[2] - 1)

\* A mutant of Confidence: the element-type bonus is given to every unit.
ConfidenceAnyElement(textCandidate, parsed, expectedPropertyId, contextElementTypes, filtered, pageM, tableM) ==
  500 + textCandidate.weight * 10
    + (IF expectedPropertyId # "" /\ parsed.propertyId = expectedPropertyId
       THEN 200 ELSE 0)
    + 150
    + (IF filtered THEN (IF pageM THEN 350 ELSE IF tableM THEN 150 ELSE 0) ELSE 0)

\* The confidence of a candidate, before the cap
Confidence(textCandidate, parsed, expectedPropertyId, contextElementTypes, filtered, pageM, tableM) ==
  500 + textCandidate.weight * 10
    + (IF expectedPropertyId # "" /\ parsed.propertyId = expectedPropertyId
       THEN 200 ELSE 0)
    + (IF /\ parsed.elementType # "" /\ contextElementTypes # {}
          /\ matchesAnyElementType(parsed.elementType, contextElementTypes)
       THEN 150 ELSE 0)
    + (IF filtered THEN (IF pageM THEN 350 ELSE IF tableM THEN 150 ELSE 0) ELSE 0)

\* A mutant of scanScored: a note that matches neither name only costs the
\* bonus.
scanScoredAnyNote(st, unit, unitId, textCandidate, context, unitTarget, parsed, note, expectedPropertyId, filtered, pageM, tableM) ==
  setCandidate(st,
    [unitId |-> unitId, source |-> SourceOf(unit), target |-> unitTarget,
     objectType |-> parsed.objectType, objectId |-> parsed.objectId,
     elementType |-> parsed.elementType, elementId |-> parsed.elementId,
     propertyId |-> parsed.propertyId, note |-> note,
     confidence |->
       Min(1000, Confidence(textCandidate, parsed, expectedPropertyId,
                            getContextElementTypes(context), filtered,
                            pageM, tableM)),
     matchSource |-> textCandidate.source,
     matchedText |-> textCandidate.text],
    IndexOfUnitId(st.map, unitId))

\* The page/table filter, the score and the entry in candidateMap
scanScored(st, unit, unitId, textCandidate, context, unitTarget, parsed, note, expectedPropertyId, filtered, pageM, tableM) ==
  IF filtered /\ ~pageM /\ ~tableM
  THEN [st EXCEPT !.pageTableFilteredCount = @ + 1]
  ELSE setCandidate(st,
         [unitId |-> unitId, source |-> SourceOf(unit), target |-> unitTarget,
          objectType |-> parsed.objectType, objectId |-> parsed.objectId,
          elementType |-> parsed.elementType, elementId |-> parsed.elementId,
          propertyId |-> parsed.propertyId, note |-> note,
          confidence |->
            Min(1000, Confidence(textCandidate, parsed, expectedPropertyId,
                                 getContextElementTypes(context), filtered,
                                 pageM, tableM)),
          matchSource |-> textCandidate.source,
          matchedText |-> textCandidate.text],
         IndexOfUnitId(st.map, unitId))

\* A mutant of scanParsed: the property id of the unit is not looked at.
scanParsedAnyProperty(st, unit, unitId, textCandidate, context, unitTarget, parsed, note, expectedPropertyId) ==
  scanScored(addSample(st, note, unitId), unit, unitId, textCandidate,
             context, unitTarget, parsed, note, expectedPropertyId,
             (context.pageName # <<>> \/ context.tableName # <<>>) /\ note # <<>>,
             isPageMatch(context, Lower(note)),
             isTableMatch(context, Lower(note)))

\* The sample and the property filter
scanParsed(st, unit, unitId, textCandidate, context, unitTarget, parsed, note, expectedPropertyId) ==
  IF expectedPropertyId # "" /\ parsed.propertyId # expectedPropertyId
  THEN [addSample(st, note, unitId) EXCEPT !.propertyFilteredCount = @ + 1]
  ELSE scanScored(addSample(st, note, unitId), unit, unitId, textCandidate,
                  context, unitTarget, parsed, note, expectedPropertyId,
                  (context.pageName # <<>> \/ context.tableName # <<>>) /\ note # <<>>,
                  isPageMatch(context, Lower(note)),
                  isTableMatch(context, Lower(note)))

\* The text matched: textMatchCount++ and the parse of the unit id
scanMatched(st, unit, unitId, textCandidate, context, unitTarget, parsed) ==
  IF ~parsed.ok THEN [st EXCEPT !.textMatchCount = @ + 1]
  ELSE scanParsed([st EXCEPT !.textMatchCount = @ + 1], unit, unitId,
                  textCandidate, context, unitTarget, parsed, NoteOf(unit),
                  getExpectedPropertyId(context))

\* targetLookup.get(unitTarget); t is the place of the text candidate
scanTarget(st, unit, unitId, textCandidates, context, unitTarget, t) ==
  IF t = 0 THEN st
  ELSE scanMatched(st, unit, unitId, textCandidates[t], context, unitTarget,
                   parseTransUnitId(unitId))

\* One pass of the while loop of findXliffCandidatesInternalWithDiagnostics
\* for the unit block unit with id unitId, from the scan state st
ScanUnit(st, unit, unitId, textCandidates, context) ==
  IF targetRe(unit) = <<0, 0>> THEN st
  ELSE scanTarget(st, unit, unitId, textCandidates, context,
                  normalizeText(TargetOf(unit)),
                  IndexOfNormalized(textCandidates, normalizeText(TargetOf(unit))))

RECURSIVE ScanUnits(_, _, _, _)
ScanFrom(st, content, textCandidates, context, m) ==
  IF m = <<0, 0>> THEN st
  ELSE ScanUnits(ScanUnit(st, SubSeq(content, m[1], m[2]), content[m[1]][2],
                          textCandidates, context),
                 SubSeq(content, m[2] + 1, Len(content)), textCandidates, context)

ScanUnits(st, content, textCandidates, context) ==
  ScanFrom(st, content, textCandidates, context, unitRe(content))

IsPageType(c) == LowerStr(c.objectType) \in {"page", "pageextension"}

\* candidates.filter(c => isPageType(c))
RECURSIVE FilterPageTypes(_)
FilterPageTypes(s) ==
  IF s = <<>> THEN <<>>
  ELSE IF IsPageType(s[1]) THEN <<s[1]>> \o FilterPageTypes(Tail(s))
       ELSE FilterPageTypes(Tail(s))

\* Array.prototype.sort((a, b) => b.confidence - a.confidence): stable
RECURSIVE SortByConfidence(_)
SortByConfidence(s) ==
  IF s = <<>> THEN <<>>
  ELSE LET best == MinOf({i \in 1..Len(s) :
                            \A j \in 1..Len(s) : s[j].confidence <= s[i].confidence})
       IN <<s[best]>> \o
            SortByConfidence(SubSeq(s, 1, best - 1) \o SubSeq(s, best + 1, Len(s)))

\* A mutant of prioritize: table candidates stay beside page candidates.
prioritizeNone(candidates) == candidates

\* Page matches take precedence over table matches
prioritize(candidates) ==
  IF \E i \in 1..Len(candidates) : IsPageType(candidates[i])
  THEN FilterPageTypes(candidates)
  ELSE candidates

filterReasonOf(st, finalCandidates) ==
  IF st.textMatchCount = 0 THEN "No trans-units found with matching target text"
  ELSE IF st.propertyFilteredCount > 0 /\ finalCandidates = <<>>
  THEN "trans-units filtered by property type (Caption vs ToolTip)"
  ELSE IF st.pageTableFilteredCount > 0 /\ finalCandidates = <<>>
  THEN "trans-units filtered by page/table name mismatch"
  ELSE ""

\* The candidates and the diagnostics returned after the scan
scanResult(st, finalCandidates) ==
  [candidates |-> finalCandidates,
   diagnostics |->
     [textMatchCount |-> st.textMatchCount,
      propertyFilteredCount |-> st.propertyFilteredCount,
      pageTableFilteredCount |-> st.pageTableFilteredCount,
      finalMatchCount |-> Len(st.map),
      sampleTextMatches |-> st.sampleTextMatches,
      filterReason |-> filterReasonOf(st, finalCandidates)]]

scanned(st) == scanResult(st, SortByConfidence(prioritize(st.map)))

findXliffCandidatesInternalWithDiagnostics(xliffContent, textCandidates, context) ==
  scanned(ScanUnits(NoScan, xliffContent, textCandidates, context))

NoDiagnostics ==
  [candidates |-> <<>>,
   diagnostics |->
     [textMatchCount |-> 0, propertyFilteredCount |-> 0,
      pageTableFilteredCount |-> 0, finalMatchCount |-> 0,
      sampleTextMatches |-> <<>>, filterReason |-> "No text to search for"]]

findCandidatesFor(xliffContent, context, textCandidates) ==
  IF textCandidates = <<>> THEN NoDiagnostics
  ELSE findXliffCandidatesInternalWithDiagnostics(xliffContent, textCandidates, context)

findXliffCandidatesFromDomWithDiagnostics(xliffContent, context) ==
  findCandidatesFor(xliffContent, context, collectTextCandidates(TextEntries(context)))

\* The bonuses of findXliffCandidatesInternal for the place of the element:
\* uiArea, ariaRole and htmlTag against the element type of the unit, and a
\* captured Column against a table field or a page control
uiBonus(context, parsed) ==
  (IF context.uiArea = "ActionBar" /\ parsed.elementType = "Action" THEN 50 ELSE 0)
    + (IF context.uiArea = "List" /\ parsed.elementType = "Column" THEN 50 ELSE 0)
    + (IF /\ context.uiArea \in {"ContentArea", "Group", "FieldGroup"}
          /\ parsed.elementType \in {"Field", "Control"}
       THEN 50 ELSE 0)
    + (IF context.ariaRole = "columnheader" /\ parsed.elementType = "Column"
       THEN 50 ELSE 0)
    + (IF context.htmlTag = "button" /\ parsed.elementType = "Action" THEN 50 ELSE 0)
    + (IF context.htmlTag = "input" /\ parsed.elementType \in {"Field", "Control"}
       THEN 50 ELSE 0)
    + (IF /\ LowerStr(context.elementType) = "column"
          /\ LowerStr(parsed.objectType) \in {"table", "tableextension"}
          /\ parsed.elementType = "Field"
       THEN 150 ELSE 0)
    + (IF /\ LowerStr(context.elementType) = "column"
          /\ LowerStr(parsed.objectType) \in {"page", "pageextension"}
          /\ parsed.elementType = "Control"
       THEN 100 ELSE 0)

\* findXliffCandidatesInternal: the page/table filter, the score with the
\* bonuses, and the entry in candidateMap
plainScored(st, unit, unitId, textCandidate, context, unitTarget, parsed, note, expectedPropertyId, filtered, pageM, tableM) ==
  IF filtered /\ ~pageM /\ ~tableM THEN st
  ELSE setCandidate(st,
         [unitId |-> unitId, source |-> SourceOf(unit), target |-> unitTarget,
          objectType |-> parsed.objectType, objectId |-> parsed.objectId,
          elementType |-> parsed.elementType, elementId |-> parsed.elementId,
          propertyId |-> parsed.propertyId, note |-> note,
          confidence |->
            Min(1000, Confidence(textCandidate, parsed, expectedPropertyId,
                                 getContextElementTypes(context), filtered,
                                 pageM, tableM)
                        + uiBonus(context, parsed)),
          matchSource |-> textCandidate.source,
          matchedText |-> textCandidate.text],
         IndexOfUnitId(st.map, unitId))

\* findXliffCandidatesInternal: the parse of the unit id and the property filter
plainMatched(st, unit, unitId, textCandidate, context, unitTarget, parsed, note, expectedPropertyId) ==
  IF ~parsed.ok THEN st
  ELSE IF expectedPropertyId # "" /\ parsed.propertyId # expectedPropertyId THEN st
  ELSE plainScored(st, unit, unitId, textCandidate, context, unitTarget, parsed,
                   note, expectedPropertyId,
                   (context.pageName # <<>> \/ context.tableName # <<>>) /\ note # <<>>,
                   isPageMatch(context, Lower(note)),
                   isTableMatch(context, Lower(note)))

plainTarget(st, unit, unitId, textCandidates, context, unitTarget, t) ==
  IF t = 0 THEN st
  ELSE plainMatched(st, unit, unitId, textCandidates[t], context, unitTarget,
                    parseTransUnitId(unitId), NoteOf(unit),
                    getExpectedPropertyId(context))

\* One pass of the while loop of findXliffCandidatesInternal
PlainUnit(st, unit, unitId, textCandidates, context) ==
  IF targetRe(unit) = <<0, 0>> THEN st
  ELSE plainTarget(st, unit, unitId, textCandidates, context,
                   normalizeText(TargetOf(unit)),
                   IndexOfNormalized(textCandidates, normalizeText(TargetOf(unit))))

RECURSIVE PlainUnits(_, _, _, _)
PlainFrom(st, content, textCandidates, context, m) ==
  IF m = <<0, 0>> THEN st
  ELSE PlainUnits(PlainUnit(st, SubSeq(content, m[1], m[2]), content[m[1]][2],
                            textCandidates, context),
                  SubSeq(content, m[2] + 1, Len(content)), textCandidates, context)

PlainUnits(st, content, textCandidates, context) ==
  PlainFrom(st, content, textCandidates, context, unitRe(content))

findXliffCandidatesInternal(xliffContent, textCandidates, context) ==
  SortByConfidence(prioritize(PlainUnits(NoScan, xliffContent, textCandidates,
                                         context).map))

findXliffCandidates(xliffContent, targetText, context) ==
  IF targetText = <<>> THEN <<>>
  ELSE findXliffCandidatesInternal(xliffContent,
         collectTextCandidates(<<[text |-> targetText, weight |-> 10,
                                  source |-> "targetText"]>>),
         context)

(***************************************************************************)
(* Inputs: trans-unit ids, correction texts and XLIFF documents.           *)
(***************************************************************************)
\* Unit ids, word by word ("Table 100 - Field 1 - Property 2879900210").
ID_TF == <<"Table", "100", "-", "Field", "1", "-", "Property", PROPERTY_CAPTION>>
ID_PC == <<"Page", "200", "-", "Control", "1", "-", "Property", PROPERTY_CAPTION>>

UnitIds == {ID_TF, ID_PC}

TextChars == {Ch("a"), Ch("A"), SP, Ch("$"), Ch("&")}

Texts == UNION {[1..n -> TextChars] : n \in 0..MaxTextLen}

GEN == "Xliff Generator"

\* The shapes of a trans-unit in the documents of the model: indented with a
\* target, compact with an escaped target, with a self-closing target,
\* without a target (indented and compact), and without source and target.
UnitForms == {"full", "amp", "self", "notarget", "flat", "bare"}

Unit(id, form) ==
  CASE form = "full" ->
         <<TU(id), NL, SP, SRC, Ch("s"), SRCC, NL, SP, TGT(ATTR_NT), Ch("a"), TGTC,
           NL, SP, NOTE(GEN), Ch("n"), NOTEC, NL, TUC>>
    [] form = "amp" ->
         <<TU(id), SRC, Ch("s"), SRCC, TGT("")>> \o E_AMP \o <<TGTC, TUC>>
    [] form = "self" ->
         <<TU(id), NL, SP, SRC, Ch("s"), SRCC, NL, SP, TGTS(ATTR_NT),
           NL, SP, NOTE(GEN), Ch("n"), NOTEC, NL, TUC>>
    [] form = "notarget" ->
         <<TU(id), NL, SP, SP, SRC, Ch("s"), SRCC, NL, SP, SP, NOTE(GEN), Ch("n"),
           NOTEC, NL, TUC>>
    [] form = "flat" ->
         <<TU(id), SRC, Ch("s"), SRCC, TUC>>
    [] form = "bare" ->
         <<TU(id), NOTE(GEN), Ch("n"), NOTEC, TUC>>

Units == {Unit(id, f) : id \in UnitIds, f \in UnitForms}

Head1 == <<XTAG("body"), NL>>
Foot1 == <<NL, XTAG("/body")>>

\* A document: text, a trans-unit, text, possibly a second trans-unit, text.
Docs ==
  {Head1 \o u \o Foot1 : u \in Units}
    \cup {Head1 \o u \o <<NL>> \o v \o Foot1 : u \in Units, v \in Units}

ID_TG == <<"Table", "100", "-", "Field", "2", "-", "Property", PROPERTY_CAPTION>>

Txt(c) == <<Ch(c)>>

\* A generator note, word by word ("Table Item - Field Name - Property Caption")
NoteText(objectType, objectName) ==
  <<Ch(objectType), SP, Ch(objectName), SP, Ch("-"), SP, Ch("Field"), SP,
    Ch("Name"), SP, Ch("-"), SP, Ch("Property"), SP, Ch("Caption")>>

\* A trans-unit as the generator writes it, with the given target text
CmdUnit(id, target, note) ==
  <<TU(id), NL, SP, SRC, Ch("s"), SRCC, NL, SP, TGT(ATTR_NT)>> \o target
    \o <<TGTC, NL, SP, NOTE(GEN)>> \o note \o <<NOTEC, NL, TUC>>

CmdDoc(u, v) == Head1 \o u \o <<NL>> \o v \o Foot1

ID_PT == <<"Page", "200", "-", "Control", "1", "-", "Property", PROPERTY_TOOLTIP>>

\* The generator note of a tooltip ("Page ItemList - Control Name - Property ToolTip")
TipNote ==
  <<Ch("Page"), SP, Ch("ItemList"), SP, Ch("-"), SP, Ch("Control"), SP,
    Ch("Name"), SP, Ch("-"), SP, Ch("Property"), SP, Ch("ToolTip")>>

\* The XLIFF files of the command: a table field and a page control with the
\* same target, two table fields with the same target, two table fields
\* with different targets, and the caption and the tooltip of a page control
\* with the same target
CmdDocs ==
  { CmdDoc(CmdUnit(ID_TF, Txt("a"), NoteText("Table", "Item")),
           CmdUnit(ID_PC, Txt("a"), NoteText("Page", "ItemList"))),
    CmdDoc(CmdUnit(ID_TF, Txt("a"), NoteText("Table", "Item")),
           CmdUnit(ID_TG, Txt("a"), NoteText("Table", "Item"))),
    CmdDoc(CmdUnit(ID_TF, Txt("a"), NoteText("Table", "Item")),
           CmdUnit(ID_TG, Txt("b"), NoteText("Table", "Item"))),
    CmdDoc(CmdUnit(ID_PC, Txt("a"), NoteText("Page", "ItemList")),
           CmdUnit(ID_PT, Txt("a"), TipNote)) }

NoContext ==
  [elementType |-> "", propertyType |-> "", uiArea |-> "", htmlTag |-> "",
   ariaRole |-> "", ariaLabel |-> <<>>, titleAttribute |-> <<>>,
   innerText |-> <<>>, placeholder |-> <<>>, dataAttributes |-> {},
   isToolTip |-> "undefined"]

CorrectionItem(id, source, target) ==
  [id |-> id, source |-> source, target |-> target, pageName |-> <<>>,
   tableName |-> <<>>, elementContext |-> NoContext]

\* The correction items a query may return: a correction of "a", one that
\* differs from the file in case only, one without source text, one whose
\* element shows two texts on a page named "Item List", one of a tooltip,
\* and one whose element context names the property and has no isToolTip
CmdItems ==
  { CorrectionItem("c1", Txt("a"), Txt("b")),
    CorrectionItem("c2", <<SP, Ch("a")>>, Txt("A")),
    CorrectionItem("c3", <<>>, Txt("b")),
    [CorrectionItem("c4", Txt("a"), Txt("c")) EXCEPT
       !.elementContext.innerText = Txt("b"),
       !.elementContext.elementType = "Field",
       !.pageName = <<Ch("Item"), SP, Ch("List")>>],
    [CorrectionItem("c5", Txt("a"), Txt("b")) EXCEPT
       !.elementContext.isToolTip = "true"],
    [CorrectionItem("c6", Txt("a"), Txt("b")) EXCEPT
       !.elementContext.propertyType = "ToolTip"] }

MaxItems == 3

\* The result sets of the query, in timestamp order
Resources == UNION {[1..n -> CmdItems] : n \in 0..MaxItems}

\* Unit ids of the matcher's documents: a property of the table itself, the
\* tooltip of the table field, and an id of neither grammar
ID_TP == <<"Table", "100", "-", "Property", PROPERTY_CAPTION>>
ID_TT == <<"Table", "100", "-", "Field", "1", "-", "Property", PROPERTY_TOOLTIP>>
ID_BAD == <<"bad id">>
ID_CP == <<"Codeunit", "300", "-", "Property", PROPERTY_CAPTION>>

\* The trans-units of the matcher's documents
MatchUnits ==
  { CmdUnit(ID_TF, Txt("a"), NoteText("Table", "Item")),
    CmdUnit(ID_TF, Txt("b"), NoteText("Table", "Item")),
    CmdUnit(ID_TF, Txt("a"), <<>>),
    CmdUnit(ID_PC, Txt("a"), NoteText("Page", "ItemList")),
    CmdUnit(ID_PC, Txt("b"), NoteText("Page", "Other")),
    CmdUnit(ID_TT, Txt("a"), NoteText("Table", "Item")),
    CmdUnit(ID_TP, Txt("Item"), <<>>),
    CmdUnit(ID_BAD, Txt("a"), <<>>) }

MaxUnits == 2

RECURSIVE JoinUnits(_)
JoinUnits(us) ==
  IF Len(us) = 1 THEN us[1] ELSE us[1] \o <<NL>> \o JoinUnits(Tail(us))

\* A unit of a codeunit, and the units it shares a document with
CodeunitUnit == CmdUnit(ID_CP, Txt("a"), <<>>)

CodeunitDocs ==
  {Head1 \o JoinUnits(us) \o Foot1 :
     us \in {<<CodeunitUnit>>,
             <<CodeunitUnit, CmdUnit(ID_PC, Txt("a"), NoteText("Page", "ItemList"))>>,
             <<CmdUnit(ID_TF, Txt("a"), <<>>), CodeunitUnit>>}}

\* The matcher's documents: one to MaxUnits trans-units, in any order
MatchDocs ==
  {Head1 \o JoinUnits(us) \o Foot1 : us \in UNION {[1..n -> MatchUnits] : n \in 1..MaxUnits}}
    \cup CodeunitDocs

\* What the captured element tells about itself: type, property, tooltip flag
\* and place
MatchElements ==
  { [elementType |-> "Field", propertyType |-> "Caption", isToolTip |-> "undefined", uiArea |-> ""],
    [elementType |-> "Field", propertyType |-> "", isToolTip |-> "undefined", uiArea |-> "ContentArea"],
    [elementType |-> "Column", propertyType |-> "caption", isToolTip |-> "undefined", uiArea |-> "List"],
    [elementType |-> "", propertyType |-> "", isToolTip |-> "true", uiArea |-> ""] }

\* The names of the page and of its table, as far as known
MatchNames ==
  {<<<<>>, <<>>>>, <<Txt("ItemList"), <<>>>>, <<Txt("Other"), Txt("Item")>>}

DomContext(e, translatedText, innerText, n) ==
  [elementType |-> e.elementType, propertyType |-> e.propertyType,
   uiArea |-> e.uiArea, htmlTag |-> "", ariaRole |-> "", ariaLabel |-> <<>>,
   titleAttribute |-> <<>>, innerText |-> innerText, placeholder |-> <<>>,
   flags |-> {}, isToolTip |-> e.isToolTip, translatedText |-> translatedText,
   pageName |-> n[1], tableName |-> n[2]]

\* The contexts of the searches: an element that shows "a" and holds "b"
\* inside, a field caption "Item", and an element without any text
MatchContexts ==
  {DomContext(e, Txt("a"), Txt("b"), n) : e \in MatchElements, n \in MatchNames}
    \cup {DomContext(e, Txt("Item"), <<>>, n) :
            e \in {x \in MatchElements : x.propertyType = "Caption"}, n \in MatchNames}
    \cup {DomContext(e, <<>>, <<>>, <<<<>>, <<>>>>) :
            e \in {x \in MatchElements : x.propertyType = "Caption"}}

(***************************************************************************)
(* State.                                                                  *)
(***************************************************************************)
VARIABLES
  mPc,       \* mutator run: "off", "init", "once", "twice"
  mDoc,      \* the document handed to applyUpdatesToXliff
  mUpdates,  \* the update map
  mFirst,    \* the result of the first application
  mSecond,   \* the result of applying the same updates to mFirst.text
  cPc,       \* applyCorrectionsFromCosmos: "off", "query", "loop", "apply", "done"
  cFile,     \* the XLIFF file on disk
  cQuery,    \* what the query will answer: a failure, or the resources
  cXliffContent, \* the text read from the file
  cIdx,      \* the number of resources processed by the loop
  cUpdates,  \* the update map collected by the loop
  cStats,    \* UpdateStats
  cReport,   \* reportItems: status and matched unit ids
  cWrites,   \* the texts written to the file by the command, in order
  cOutcome,  \* the path on which the command ended
  hEdit,     \* the human's save: "none", or the position of the command then
  tPc,       \* translation: "off", "unit", "translate", "initial", "enriched",
             \* "returned", "done", "failed"
  tBatch,    \* the source texts translateXLIFF hands to the callback, in order
  tIdx,      \* the number of texts the callback has answered
  tIndex,    \* openIndex of translateAndLog
  tText,     \* the text argument of translateText
  tRetries,  \* the retries argument of translateText
  tExact,    \* the exact lookup of this text: "none", "miss", "hit"
  tFuzzy,    \* the fuzzy lookup of this text: "none", "empty", "found"
  tCalls,    \* calls of callAITranslation made by this translateText
  tRequests, \* requests posted by the callAITranslation in flight
  tAnswers,  \* the results callAITranslation has returned to this translateText
  tResult,   \* what translateText returned
  tOut,      \* what the callback returned, text by text
  tError,    \* the message of the error thrown, or ""
  qPc,       \* matcher: "off", "init", "dom", "done", "compared"
  qContent,  \* the XLIFF text handed to the matcher
  qContext,  \* the DomMatchContext of the search
  qResult,   \* what findXliffCandidatesFromDomWithDiagnostics returned
  qPlain,    \* what findXliffCandidates returned
  qInternal, \* what findXliffCandidatesInternal returned for the same texts
  sPc,       \* selection: "off", "idle", "applied", "existing", "ask",
             \* "options", "done", "stopped"
  sDoc,      \* the text of the document in the active editor
  sBefore,   \* the text of the document when the operation began
  sEdited,   \* the text of the document after the user's edit, if any
  sCursor,   \* the offset of the cursor
  sBlock,    \* the block findTransUnitBlock found: first and last token
  sSource,   \* sourceText
  sOptions,  \* the items offered by the quick pick
  sPicked,   \* the translation picked, or handed to applyFirstTranslation
  sOk,       \* what applyFirstTranslation returned: "none", "true", "false"
  ePc,       \* export: "off", "idle", "units", "reported", "ended"
  eItems,    \* the items of the container
  eFile,     \* the file of the run: its place in ExportFiles, 0 before a run
  eIdx,      \* the units of the file the loop has passed
  eSuccess,  \* successCount
  eSkipped,  \* skippedCount
  eFailed,   \* a database call of the run has thrown
  eRuns,     \* the runs started
  eDone,     \* the earlier runs that reported: file and whether a call threw
  kPc,       \* confidence: "off", "idle", "choices", "returned", "thrown"
  kText,     \* the placeholders of the text to translate
  kResponse, \* the choices of the response of the backend
  kResults,  \* the results, as far as they are computed
  nPc,       \* normalization: "off", "idle", "once", "twice"
  nText,     \* the string handed to normalizeText
  nOnce,     \* normalizeText of the string
  nTwice,    \* normalizeText of that result
  yPc,       \* sync: "off", "idle", "queried"
  yClock,    \* the time
  yStore,    \* the correction records of the container
  yLastSync, \* lastSyncTimestamp of the sync record, -1 without a record
  yFilter,   \* timestampFilter of the run, -1 when undefined
  yChoice,   \* filterChoice of the run
  yFetched,  \* resources of the run
  yLeft,     \* the records the query of the run did not return
  yQueried,  \* the time the run queried the store
  yPrevious  \* the time the previous run queried the store, -1 without one

mvars == <<mPc, mDoc, mUpdates, mFirst, mSecond>>

cvars ==
  <<cPc, cFile, cQuery, cXliffContent, cIdx, cUpdates, cStats, cReport,
    cWrites, cOutcome, hEdit>>

tvars ==
  <<tPc, tBatch, tIdx, tIndex, tText, tRetries, tExact, tFuzzy, tCalls,
    tRequests, tAnswers, tResult, tOut, tError>>

qvars == <<qPc, qContent, qContext, qResult, qPlain, qInternal>>

\* The variables of the specifications that follow SpecTranslate
svars == <<sPc, sDoc, sBefore, sEdited, sCursor, sBlock, sSource, sOptions, sPicked, sOk>>

evars == <<ePc, eItems, eFile, eIdx, eSuccess, eSkipped, eFailed, eRuns, eDone>>

kvars == <<kPc, kText, kResponse, kResults>>

nvars == <<nPc, nText, nOnce, nTwice>>

yvars ==
  <<yPc, yClock, yStore, yLastSync, yFilter, yChoice, yFetched, yLeft, yQueried, yPrevious>>

zvars == <<kvars, nvars, yvars>>

xvars == <<qvars, svars, evars, zvars>>

vars == <<mvars, cvars, tvars, xvars>>

EmptyMap == [id \in {} |-> <<>>]

\* The answer of a query that throws
QueryFailure == [ok |-> FALSE, resources |-> <<>>]

NoStats == [updated |-> 0, unchanged |-> 0, unmatched |-> 0, conflicts |-> 0, skipped |-> 0]

\* The mutator at rest, while another specification runs
MOff ==
  /\ mPc = "off"
  /\ mDoc = <<>>
  /\ mUpdates = EmptyMap
  /\ mFirst = NoResult
  /\ mSecond = NoResult

\* The command at rest, while another specification runs
COff ==
  /\ cPc = "off"
  /\ cFile = <<>>
  /\ cQuery = QueryFailure
  /\ cXliffContent = <<>>
  /\ cIdx = 0
  /\ cUpdates = EmptyMap
  /\ cStats = NoStats
  /\ cReport = <<>>
  /\ cWrites = <<>>
  /\ cOutcome = ""
  /\ hEdit = "none"

\* The translation at rest, while another specification runs
TOff ==
  /\ tPc = "off"
  /\ tBatch = <<>>
  /\ tIdx = 0
  /\ tIndex = EmptyMap
  /\ tText = <<>>
  /\ tRetries = 0
  /\ tExact = "none"
  /\ tFuzzy = "none"
  /\ tCalls = 0
  /\ tRequests = 0
  /\ tAnswers = <<>>
  /\ tResult = <<>>
  /\ tOut = <<>>
  /\ tError = ""

\* The matcher at rest, while another specification runs
QOff ==
  /\ qPc = "off"
  /\ qContent = <<>>
  /\ qContext = NoContext
  /\ qResult = NoDiagnostics
  /\ qPlain = <<>>
  /\ qInternal = <<>>

\* The specifications that follow SpecTranslate at rest
\* The selection command at rest, while another specification runs
SOff ==
  /\ sPc = "off"
  /\ sDoc = <<>>
  /\ sBefore = <<>>
  /\ sEdited = <<>>
  /\ sCursor = 0
  /\ sBlock = <<0, 0>>
  /\ sSource = <<>>
  /\ sOptions = <<>>
  /\ sPicked = <<>>
  /\ sOk = "none"

\* The export at rest, while another specification runs
EOff ==
  /\ ePc = "off"
  /\ eItems = {}
  /\ eFile = 0
  /\ eIdx = 0
  /\ eSuccess = 0
  /\ eSkipped = 0
  /\ eFailed = FALSE
  /\ eRuns = 0
  /\ eDone = {}

\* The confidence of the backend results at rest
KOff ==
  /\ kPc = "off"
  /\ kText = {}
  /\ kResponse = <<>>
  /\ kResults = <<>>

\* The normalization at rest
NOff ==
  /\ nPc = "off"
  /\ nText = <<>>
  /\ nOnce = <<>>
  /\ nTwice = <<>>

\* The incremental sync at rest
YOff ==
  /\ yPc = "off"
  /\ yClock = 0
  /\ yStore = {}
  /\ yLastSync = -1
  /\ yFilter = -1
  /\ yChoice = ""
  /\ yFetched = {}
  /\ yLeft = {}
  /\ yQueried = -1
  /\ yPrevious = -1

ZOff == KOff /\ NOff /\ YOff

XOff == QOff /\ SOff /\ EOff /\ ZOff

(***************************************************************************)
(* SpecMutator: applyUpdatesToXliff applied once, then again to its own    *)
(* result with the same update map.                                        *)
(***************************************************************************)
MInit ==
  /\ mPc = "init"
  /\ mDoc \in Docs
  /\ \E id \in UnitIds, t \in Texts :
       mUpdates = (id :> [translated |-> t, cosmosId |-> "c1"])
  /\ mFirst = NoResult
  /\ mSecond = NoResult
  /\ COff
  /\ TOff
  /\ XOff

MApplyFirst ==
  /\ mPc = "init"
  /\ mFirst' = applyUpdatesToXliff(mDoc, mUpdates)
  /\ mPc' = "once"
  /\ UNCHANGED <<mDoc, mUpdates, mSecond, cvars, tvars, xvars>>

MApplySecond ==
  /\ mPc = "once"
  /\ mSecond' = applyUpdatesToXliff(mFirst.text, mUpdates)
  /\ mPc' = "twice"
  /\ UNCHANGED <<mDoc, mUpdates, mFirst, cvars, tvars, xvars>>

MNext == MApplyFirst \/ MApplySecond

SpecMutator == MInit /\ [][MNext]_vars

\* C1: applying the same update a second time to the document produced by the
\* first application reports the unit as unchanged (updated = 0) and returns
\* text identical to the first result.
C1_Idempotent ==
  mPc = "twice" => mSecond.updated = 0 /\ mSecond.text = mFirst.text

\* The ids of the trans-unit tags of a document
UnitIdsIn(doc) == {doc[i][2] : i \in {k \in 1..Len(doc) : Kind(doc[k]) = "tu"}}

\* mid is a freshly written target element; when it was inserted (ins), it
\* stands on a line of its own
IsNewTarget(mid, ins) ==
  /\ Len(mid) >= 2
  /\ mid[Len(mid)] = TGTC
  /\ IF ins
     THEN mid[1] = NL /\ TrimLeft(mid) # <<>> /\ TrimLeft(mid)[1] = TGT(ATTR_UC)
     ELSE mid[1] = TGT(ATTR_UC)

\* r is unit with the tokens i..j (none when j = i - 1) replaced by a target
Spliced(unit, r, i, j, ins) ==
  LET k == Len(unit) - j
  IN /\ Len(r) >= (i - 1) + k
     /\ SubSeq(r, 1, i - 1) = SubSeq(unit, 1, i - 1)
     /\ SubSeq(r, Len(r) - k + 1, Len(r)) = SubSeq(unit, j + 1, Len(unit))
     /\ IsNewTarget(SubSeq(r, i, Len(r) - k), ins)

\* r differs from unit at most in its target element, or in a target
\* inserted right after the source element of a unit that has no target
UnitFrame(unit, r) ==
  \/ r = unit
  \/ \E i \in 1..Len(unit) :
       \/ Kind(unit[i]) = "tgt/" /\ Spliced(unit, r, i, i, FALSE)
       \/ /\ Kind(unit[i]) = "tgt"
          /\ FirstTok(unit, i + 1, TGTC) # 0
          /\ Spliced(unit, r, i, FirstTok(unit, i + 1, TGTC), FALSE)
       \/ /\ unit[i] = SRCC
          /\ \A k \in 1..Len(unit) : Kind(unit[k]) \notin TargetOpenKinds
          /\ Spliced(unit, r, i + 1, i, TRUE)

\* out is doc with every text between trans-unit blocks and every block whose
\* id is not in keys kept token for token, and every other block framed
RECURSIVE FrameOK(_, _, _)
FrameOK(doc, out, keys) ==
  LET m == unitRe(doc)
  IN IF m = <<0, 0>> THEN out = doc
     ELSE LET pre == SubSeq(doc, 1, m[1] - 1)
              unit == SubSeq(doc, m[1], m[2])
              rest == SubSeq(doc, m[2] + 1, Len(doc))
              o2 == SubSeq(out, Len(pre) + 1, Len(out))
          IN /\ HasPrefix(out, pre)
             /\ IF doc[m[1]][2] \notin keys
                THEN /\ HasPrefix(o2, unit)
                     /\ FrameOK(rest, SubSeq(o2, Len(unit) + 1, Len(o2)), keys)
                ELSE \E n \in {k \in 1..Len(o2) : o2[k] = TUC} :
                       /\ UnitFrame(unit, SubSeq(o2, 1, n))
                       /\ FrameOK(rest, SubSeq(o2, n + 1, Len(o2)), keys)

\* C2: applyUpdatesToXliff leaves every trans-unit block whose id is not a key
\* of the update map, and all text outside trans-unit blocks, unchanged token
\* for token; inside an updated block only the target element (or the target
\* inserted after the source) differs.
C2_Frame ==
  mPc # "init" => FrameOK(mDoc, mFirst.text, DOMAIN mUpdates)

\* C2 witness: one block was rewritten while a block with another id stands
\* in the same document.
C2_Witness ==
  /\ mPc = "once"
  /\ mFirst.updated = 1
  /\ UnitIdsIn(mDoc) \ DOMAIN mUpdates # {}


(***************************************************************************)
(* SpecCommand: one run of applyCorrectionsFromCosmos on a file that a     *)
(* human may save once, at any moment.                                     *)
(***************************************************************************)
toText(value) == Trim(value)

\* String(isToolTipRaw ?? '').toLowerCase() === 'true' when not a boolean
buildDomContext(item, source) ==
  LET ctx == item.elementContext
  IN [elementType |-> ctx.elementType, propertyType |-> ctx.propertyType,
      uiArea |-> ctx.uiArea, htmlTag |-> ctx.htmlTag, ariaRole |-> ctx.ariaRole,
      ariaLabel |-> toText(ctx.ariaLabel),
      titleAttribute |-> toText(ctx.titleAttribute),
      innerText |-> toText(ctx.innerText),
      placeholder |-> toText(ctx.placeholder),
      flags |-> ctx.dataAttributes,
      isToolTip |-> IF ctx.isToolTip = "true" THEN "true" ELSE "false",
      translatedText |-> source,
      pageName |-> toText(item.pageName),
      tableName |-> toText(item.tableName)]

\* A mutant of collectUpdates: the last correction seen for a unit wins.
RECURSIVE collectUpdatesLastWins(_, _, _, _)
collectUpdatesLastWins(acc, cs, item, source) ==
  IF cs = <<>> THEN acc
  ELSE LET unitId == cs[1].unitId
           target == toText(item.target)
           conflict == unitId \in DOMAIN acc.updates
                          /\ acc.updates[unitId].translated # target
       IN collectUpdatesLastWins(
            [acc EXCEPT !.conflicts = IF conflict THEN @ + 1 ELSE @,
                        !.hasConflict = @ \/ conflict,
                        !.updates =
                          [id \in DOMAIN acc.updates \cup {unitId} |->
                             IF id = unitId
                             THEN [translated |-> target, source |-> source,
                                   cosmosId |-> item.id]
                             ELSE acc.updates[id]]],
            Tail(cs), item, source)

\* The loop over the candidates of one item: the update map, the conflict
\* count and hasConflict after the candidates cs
RECURSIVE collectUpdates(_, _, _, _)
collectUpdates(acc, cs, item, source) ==
  IF cs = <<>> THEN acc
  ELSE LET unitId == cs[1].unitId
           target == toText(item.target)
       IN IF unitId \in DOMAIN acc.updates /\ acc.updates[unitId].translated # target
          THEN collectUpdates([acc EXCEPT !.conflicts = @ + 1, !.hasConflict = TRUE],
                              Tail(cs), item, source)
          ELSE collectUpdates(
                 [acc EXCEPT !.updates =
                    [id \in DOMAIN acc.updates \cup {unitId} |->
                       IF id = unitId
                       THEN [translated |-> target, source |-> source,
                             cosmosId |-> item.id]
                       ELSE acc.updates[id]]],
                 Tail(cs), item, source)

UnitIdsOf(cs) == {cs[i].unitId : i \in 1..Len(cs)}

updateReportItemsWithResults(reportItems, updatedUnits, unchangedUnits) ==
  [i \in 1..Len(reportItems) |->
     IF /\ reportItems[i].status = "applied"
        /\ reportItems[i].matchedUnits \cap updatedUnits = {}
        /\ reportItems[i].matchedUnits \cap unchangedUnits # {}
     THEN [reportItems[i] EXCEPT !.status = "unchanged"]
     ELSE reportItems[i]]

CInit ==
  /\ cPc = "query"
  /\ cFile \in CmdDocs
  /\ cQuery \in {QueryFailure} \cup {[ok |-> TRUE, resources |-> r] : r \in Resources}
  /\ cXliffContent = <<>>
  /\ cIdx = 0
  /\ cUpdates = EmptyMap
  /\ cStats = NoStats
  /\ cReport = <<>>
  /\ cWrites = <<>>
  /\ cOutcome = ""
  /\ hEdit = "none"
  /\ MOff
  /\ TOff
  /\ XOff

\* container.items.query(...).fetchAll() throws
CQueryFails ==
  /\ cPc = "query"
  /\ ~cQuery.ok
  /\ cPc' = "done"
  /\ cOutcome' = "queryFailed"
  /\ UNCHANGED <<cFile, cQuery, cXliffContent, cIdx, cUpdates, cStats, cReport,
                 cWrites, hEdit, mvars, tvars, xvars>>

\* the query answers with no resources
CQueryEmpty ==
  /\ cPc = "query"
  /\ cQuery.ok
  /\ cQuery.resources = <<>>
  /\ cPc' = "done"
  /\ cOutcome' = "noCorrections"
  /\ UNCHANGED <<cFile, cQuery, cXliffContent, cIdx, cUpdates, cStats, cReport,
                 cWrites, hEdit, mvars, tvars, xvars>>

\* the query answers with resources: fs.readFileSync(xliffPath)
CReadFile ==
  /\ cPc = "query"
  /\ cQuery.ok
  /\ cQuery.resources # <<>>
  /\ cXliffContent' = cFile
  /\ cPc' = "loop"
  /\ UNCHANGED <<cFile, cQuery, cIdx, cUpdates, cStats, cReport, cWrites,
                 cOutcome, hEdit, mvars, tvars, xvars>>

\* The report item and the statistics of one resource, given its candidates
recordItem(updates, stats, report, candidates, acc) ==
  IF candidates = <<>>
  THEN [updates |-> updates,
        stats |-> [stats EXCEPT !.unmatched = @ + 1],
        report |-> Append(report, [status |-> "unmatched", matchedUnits |-> {}])]
  ELSE [updates |-> acc.updates,
        stats |-> [stats EXCEPT !.conflicts = acc.conflicts],
        report |-> Append(report,
          [status |-> IF acc.hasConflict THEN "conflict" ELSE "applied",
           matchedUnits |-> UnitIdsOf(candidates)])]

matchItem(updates, stats, report, item, source, candidates) ==
  recordItem(updates, stats, report, candidates,
             collectUpdates([updates |-> updates, conflicts |-> stats.conflicts,
                             hasConflict |-> FALSE],
                            candidates, item, source))

\* The body of the loop for one resource
processItem(xliffContent, updates, stats, report, item, source, target) ==
  IF source = <<>> \/ target = <<>>
  THEN [updates |-> updates,
        stats |-> [stats EXCEPT !.skipped = @ + 1],
        report |-> Append(report, [status |-> "skipped", matchedUnits |-> {}])]
  ELSE matchItem(updates, stats, report, item, source,
         findXliffCandidatesFromDomWithDiagnostics(
           xliffContent, buildDomContext(item, source)).candidates)

\* one pass of the loop over the resources
CProcessItem ==
  /\ cPc = "loop"
  /\ cIdx < Len(cQuery.resources)
  /\ \E r \in {processItem(cXliffContent, cUpdates, cStats, cReport,
                           cQuery.resources[cIdx + 1],
                           toText(cQuery.resources[cIdx + 1].source),
                           toText(cQuery.resources[cIdx + 1].target))} :
       /\ cUpdates' = r.updates
       /\ cStats' = r.stats
       /\ cReport' = r.report
  /\ cIdx' = cIdx + 1
  /\ cPc' = IF cIdx + 1 = Len(cQuery.resources) THEN "apply" ELSE "loop"
  /\ UNCHANGED <<cFile, cQuery, cXliffContent, cWrites, cOutcome, hEdit, mvars, tvars, xvars>>

\* A mutant of CFinish: the result text is written whether or not a unit
\* was updated.
CFinishAlwaysWrites ==
  /\ cPc = "apply"
  /\ cPc' = "done"
  /\ \E result \in {applyUpdatesToXliff(cXliffContent, cUpdates)} :
        /\ cStats' = [cStats EXCEPT !.updated = result.updated,
                                     !.unchanged = result.unchanged]
        /\ cReport' = updateReportItemsWithResults(
                        cReport, result.updatedUnits, result.unchangedUnits)
        /\ cFile' = result.text
        /\ cWrites' = Append(cWrites, result.text)
        /\ cOutcome' = IF DOMAIN cUpdates = {} THEN "noUpdates"
                       ELSE IF result.updated > 0 THEN "written" ELSE "nothingChanged"
  /\ UNCHANGED <<cQuery, cXliffContent, cIdx, cUpdates, hEdit, mvars, tvars, xvars>>

\* after the loop: applyUpdatesToXliff and fs.writeFileSync
CFinish ==
  /\ cPc = "apply"
  /\ cPc' = "done"
  /\ IF DOMAIN cUpdates = {}
     THEN /\ cOutcome' = "noUpdates"
          /\ UNCHANGED <<cFile, cStats, cReport, cWrites>>
     ELSE \E result \in {applyUpdatesToXliff(cXliffContent, cUpdates)} :
             /\ cStats' = [cStats EXCEPT !.updated = result.updated,
                                          !.unchanged = result.unchanged]
             /\ cReport' = updateReportItemsWithResults(
                             cReport, result.updatedUnits, result.unchangedUnits)
             /\ IF result.updated > 0
                THEN /\ cFile' = result.text
                     /\ cWrites' = Append(cWrites, result.text)
                     /\ cOutcome' = "written"
                ELSE /\ cOutcome' = "nothingChanged"
                     /\ UNCHANGED <<cFile, cWrites>>
  /\ UNCHANGED <<cQuery, cXliffContent, cIdx, cUpdates, hEdit, mvars, tvars, xvars>>

\* The text the human types: it occurs in no file and in no correction
HUMAN == Ch("h")

\* The human saves the file with a word added to the first source element
HumanSave ==
  /\ cPc # "off"
  /\ hEdit = "none"
  /\ cFile' = SubSeq(cFile, 1, FirstTok(cFile, 1, SRC)) \o <<HUMAN>>
                \o SubSeq(cFile, FirstTok(cFile, 1, SRC) + 1, Len(cFile))
  /\ hEdit' = cPc
  /\ UNCHANGED <<cPc, cQuery, cXliffContent, cIdx, cUpdates, cStats, cReport,
                 cWrites, cOutcome, mvars, tvars, xvars>>

CNext ==
  \/ CQueryFails
  \/ CQueryEmpty
  \/ CReadFile
  \/ CProcessItem
  \/ CFinish
  \/ HumanSave

SpecCommand == CInit /\ [][CNext]_vars

\* C3: when the file is saved by a human after applyCorrectionsFromCosmos has
\* read it and before it writes it, the human's modification is still in the
\* file after the command's write.
C3_NoLostEdit ==
  (cPc = "done" /\ cWrites # <<>> /\ hEdit \in {"loop", "apply"})
    => \E i \in 1..Len(cFile) : cFile[i] = HUMAN

\* the text of the target element of the unit with the given id in text
TargetTextIn(text, id) ==
  TargetOf(SubSeq(text, FirstTok(text, 1, TU(id)),
                  FirstTok(text, FirstTok(text, 1, TU(id)), TUC)))

\* C4: in one invocation the file is written at most once, after every
\* resource has been processed, with the text in which every accepted update
\* has been applied; it is not written when the query fails or answers with
\* nothing, when no correction matches, or when zero units changed.
C4_AllOrNothing ==
  /\ Len(cWrites) <= 1
  /\ cPc # "done" => cWrites = <<>>
  /\ (~cQuery.ok \/ cQuery.resources = <<>> \/ DOMAIN cUpdates = {}
        \/ cStats.updated = 0) => cWrites = <<>>
  /\ cWrites # <<>> =>
       /\ cIdx = Len(cQuery.resources)
       /\ cFile = cWrites[1] \/ hEdit = "done"
       /\ cWrites[1] # cXliffContent
       /\ \A id \in DOMAIN cUpdates :
            normalizeForCompare(xmlUnescape(TargetTextIn(cWrites[1], id)))
              = normalizeForCompare(cUpdates[id].translated)
       /\ FrameOK(cXliffContent, cWrites[1], DOMAIN cUpdates)

\* C4 witness: the file was written once, with the corrections of two units.
C4_Witness ==
  /\ cPc = "done"
  /\ Len(cWrites) = 1
  /\ Cardinality(DOMAIN cUpdates) = 2
  /\ cStats.updated = 2

\* The units an item matched whose mapping holds another target text
ConflictsOf(updates, matchedUnits, target) ==
  {id \in matchedUnits \cap DOMAIN updates : updates[id].translated # target}

\* One pass of the loop keeps every mapping made so far, counts one conflict
\* for every matched unit that is mapped to another target text, and goes on
\* to the next resource.
C10_Step ==
  cIdx' = cIdx + 1 =>
    /\ \A id \in DOMAIN cUpdates :
         /\ id \in DOMAIN cUpdates'
         /\ cUpdates'[id].translated = cUpdates[id].translated
    /\ cStats'.conflicts = cStats.conflicts
         + Cardinality(ConflictsOf(cUpdates, cReport'[cIdx'].matchedUnits,
                                   toText(cQuery.resources[cIdx'].target)))
    /\ cReport'[cIdx'].status = "conflict"
         <=> ConflictsOf(cUpdates, cReport'[cIdx'].matchedUnits,
                         toText(cQuery.resources[cIdx'].target)) # {}
    /\ cPc' = IF cIdx' < Len(cQuery.resources) THEN "loop" ELSE "apply"

\* C10: once a unit id has been mapped to a target text, a later item that
\* matches the same unit with a different target text never overwrites the
\* mapping, increments the conflict count by one for that unit, and does not
\* abort the processing of the remaining items.
C10_FirstSeenWins == [][C10_Step]_vars

\* C10 witness: an item met a conflict, the item after it was applied, and the
\* file was written with the first-seen text.
C10_Witness ==
  /\ cPc = "done"
  /\ cWrites # <<>>
  /\ \E i \in 1..(Len(cReport) - 1) :
       cReport[i].status = "conflict" /\ cReport[i + 1].status # "conflict"


(***************************************************************************)
(* SpecTranslate: translateText, called by the callback of translateAndLog *)
(* for the texts of a batch, or directly.  A confidence is kept in         *)
(* hundredths (0.70 is 70).                                                *)
(***************************************************************************)
NUMBER_OF_RETRIES == 3
LOW_CONFIDENCE_THRESHOLD == 70
\* text.length > 80
ENRICH_MAX_LENGTH == 80

\* The requests one callAITranslation may post in the model
MaxRequests == 5

\* The choices one answer of the backend may hold in the model
MaxChoices == 2

\* A run of characters that makes a text longer than ENRICH_MAX_LENGTH
LONG == <<"run", "x">>

TokLength(t) == IF t = LONG THEN ENRICH_MAX_LENGTH + 1 ELSE 1

\* text.length
RECURSIVE TextLength(_)
TextLength(text) ==
  IF text = <<>> THEN 0 ELSE TokLength(text[1]) + TextLength(Tail(text))

\* the inside of the first CDATA section, or s itself
stripCdata(s) ==
  IF FirstTok(s, 1, CDATA) # 0 /\ FirstTok(s, FirstTok(s, 1, CDATA) + 1, CDATAC) # 0
  THEN SubSeq(s, FirstTok(s, 1, CDATA) + 1,
              FirstTok(s, FirstTok(s, 1, CDATA) + 1, CDATAC) - 1)
  ELSE s

\* decodeXmlEntities of fileTranslationHandler: the ampersand third
decodeFileEntities(s) ==
  ReplaceAll(ReplaceAll(ReplaceAll(ReplaceAll(ReplaceAll(s,
    E_LT, <<Ch("<")>>), E_GT, <<Ch(">")>>), E_AMP, <<Ch("&")>>),
    E_QUOT, <<Ch("\"")>>), E_APOS, <<Ch("'")>>)

normXml(s) == Trim(CollapseWs(decodeFileEntities(stripCdata(s))))

NoHit == [found |-> FALSE]

lookupExistingTranslationFromIndex(index, sourceText) ==
  IF Lower(normXml(sourceText)) \in DOMAIN index
  THEN [found |-> TRUE,
        translated |-> index[Lower(normXml(sourceText))].translated,
        confidence |-> index[Lower(normXml(sourceText))].confidence]
  ELSE NoHit

\* the key under which the callback stores a translation
indexKey(sourceText) == Lower(CollapseWs(Trim(sourceText)))

\* openIndex.set(key, value)
IndexSet(index, key, value) ==
  [k \in DOMAIN index \cup {key} |-> IF k = key THEN value ELSE index[k]]

\* /<trans-unit\b[^>]*>[\s\S]*?<\/trans-unit>/ : the leftmost match in s
transUnitRe(s) == ElementMatch(s, {"tu"}, TUC)

\* captureInner(unit, /<source\b[^>]*>([\s\S]*?)<\/source>/i): the text of
\* the first source element without its CDATA brackets; <<>> stands for null
\* as for the empty string, which the callers do not tell apart
captureInner(unit) ==
  IF sourceRe(unit) = <<0, 0>> THEN <<>>
  ELSE stripCdata(SubSeq(unit, sourceRe(unit)[1] + 1, sourceRe(unit)[2] - 1))

\* The confidence attribute of a target, in hundredths; 0.9 without one
confidenceOf(attrsRaw) == IF attrsRaw = ATTR_UC THEN 100 ELSE 90

\* buildOpenFileTranslationIndex, one unit: the unit enters the index under
\* its source unless it has no source, no target element or no target text,
\* or the index holds an entry of the same or a higher confidence
indexUnit(index, unit) ==
  IF captureInner(unit) = <<>> THEN index
  ELSE IF targetRe(unit) = <<0, 0>> THEN index
  ELSE IF normXml(TargetOf(unit)) = <<>> THEN index
  ELSE IF /\ Lower(normXml(captureInner(unit))) \in DOMAIN index
          /\ confidenceOf(unit[targetRe(unit)[1]][2])
               <= index[Lower(normXml(captureInner(unit)))].confidence
  THEN index
  ELSE IndexSet(index, Lower(normXml(captureInner(unit))),
                [translated |-> normXml(TargetOf(unit)),
                 confidence |-> confidenceOf(unit[targetRe(unit)[1]][2]),
                 unitId |-> unit[1][2]])

RECURSIVE indexFrom(_, _)
indexFrom(index, text) ==
  IF transUnitRe(text) = <<0, 0>> THEN index
  ELSE indexFrom(indexUnit(index, SubSeq(text, transUnitRe(text)[1],
                                          transUnitRe(text)[2])),
                 SubSeq(text, transUnitRe(text)[2] + 1, Len(text)))

buildOpenFileTranslationIndex(text) == indexFrom(EmptyMap, text)

\* The texts handed to the callback
S_LOWER == <<Ch("s")>>
S_UPPER == <<Ch("S"), SP>>
S_LONG == <<LONG>>
S_AMP == <<Ch("s")>> \o E_AMP

Batches ==
  {<<S_LOWER>>, <<S_LOWER, S_UPPER>>, <<S_LONG, S_LOWER>>, <<S_AMP, S_AMP>>,
   <<<<SP>>, S_LOWER>>}

\* The units of the open document with the source "s": one whose target is
\* translated, one whose target has state needs-translation and holds the
\* source text, as the generator of the file writes it, and one without
\* a target text
OpenUnit(id, attrs, target) ==
  <<TU(id), SRC>> \o S_LOWER \o <<SRCC, TGT(attrs)>> \o target \o <<TGTC, TUC, NL>>

U_DONE == OpenUnit("done", ATTR_UC, Txt("f"))
U_TODO == OpenUnit("todo", ATTR_NT, S_LOWER)
U_BLANK == OpenUnit("blank", ATTR_NT, <<>>)

OpenUnits == {U_DONE, U_TODO, U_BLANK}

\* The open documents: without the text, and with it in one or two units
OpenDocs ==
  {Head1 \o body \o <<XTAG("/body")>> :
     body \in {<<>>, U_DONE, U_TODO, U_BLANK \o U_DONE, U_TODO \o U_DONE}}

\* openIndex as translateAndLog builds it from the open document
Indexes == {buildOpenFileTranslationIndex(text) : text \in OpenDocs}

\* What the store answers to an exact lookup that hits
STORED == [translated |-> "stored", confidence |-> 90]

Confidences == {LOW_CONFIDENCE_THRESHOLD - 1, LOW_CONFIDENCE_THRESHOLD}

\* The results of one successful callAITranslation
Answers ==
  UNION {[1..n -> {[translated |-> "ai", confidence |-> c, source |-> "aiTranslator"] :
                     c \in Confidences}] : n \in 0..MaxChoices}

TInit ==
  /\ \/ /\ tPc = "unit"
        /\ tBatch \in Batches
        /\ tIndex \in Indexes
        /\ tText = <<>>
        /\ tRetries = NUMBER_OF_RETRIES
     \/ /\ tPc = "translate"
        /\ tBatch = <<>>
        /\ tIndex = EmptyMap
        /\ tText \in {S_LOWER, S_LONG, <<>>}
        /\ tRetries \in {0, NUMBER_OF_RETRIES}
  /\ tIdx = 0
  /\ tExact = "none"
  /\ tFuzzy = "none"
  /\ tCalls = 0
  /\ tRequests = 0
  /\ tAnswers = <<>>
  /\ tResult = <<>>
  /\ tOut = <<>>
  /\ tError = ""
  /\ MOff
  /\ COff
  /\ XOff

\* the callback returns for the text in hand: the next text, or the end
AfterUnit == IF tIdx + 1 = Len(tBatch) THEN "done" ELSE "unit"

\* A mutant of TCallback: the open-file index is not consulted.
TCallbackNoIndex ==
  /\ tPc = "unit"
  /\ tIdx < Len(tBatch)
  /\ tText' = Trim(tBatch[tIdx + 1])
  /\ tPc' = "translate"
  /\ tExact' = "none"
  /\ tFuzzy' = "none"
  /\ tCalls' = 0
  /\ tRequests' = 0
  /\ tAnswers' = <<>>
  /\ tResult' = <<>>
  /\ UNCHANGED <<tBatch, tIdx, tIndex, tRetries, tOut, tError, mvars, cvars, xvars>>

\* the callback of translateAndLog, up to its call of translateText
TCallback ==
  /\ tPc = "unit"
  /\ tIdx < Len(tBatch)
  /\ tText' = Trim(tBatch[tIdx + 1])
  /\ tExact' = "none"
  /\ tFuzzy' = "none"
  /\ tCalls' = 0
  /\ tRequests' = 0
  /\ tAnswers' = <<>>
  /\ tResult' = <<>>
  /\ IF Trim(tBatch[tIdx + 1]) = <<>>
     THEN /\ tOut' = Append(tOut, [translated |-> "", confidence |-> 0,
                                   source |-> "unknown"])
          /\ tIdx' = tIdx + 1
          /\ tPc' = AfterUnit
     ELSE IF lookupExistingTranslationFromIndex(tIndex, Trim(tBatch[tIdx + 1])).found
     THEN /\ tOut' = Append(tOut,
               [translated |->
                  lookupExistingTranslationFromIndex(tIndex, Trim(tBatch[tIdx + 1])).translated,
                confidence |->
                  lookupExistingTranslationFromIndex(tIndex, Trim(tBatch[tIdx + 1])).confidence,
                source |-> "file"])
          /\ tIdx' = tIdx + 1
          /\ tPc' = AfterUnit
     ELSE /\ tPc' = "translate"
          /\ UNCHANGED <<tOut, tIdx>>
  /\ UNCHANGED <<tBatch, tIndex, tRetries, tError, mvars, cvars, xvars>>

\* translateText throws: an error goes through the callback and ends the batch
Throw(message) ==
  /\ tPc' = "failed"
  /\ tError' = message
  /\ UNCHANGED <<tBatch, tIdx, tIndex, tText, tRetries, tExact, tFuzzy, tCalls,
                 tRequests, tAnswers, tResult, tOut, mvars, cvars, xvars>>

TInvalidInput ==
  /\ tPc = "translate"
  /\ tText = <<>>
  /\ Throw("Invalid input: Text must be a non-empty string")

TNotConfigured ==
  /\ tPc = "translate"
  /\ tText # <<>>
  /\ Throw("Translation not configured. Please run HiLo: Configure API Keys command.")

\* lookupExactTranslation finds the text in the store
TExactHit ==
  /\ tPc = "translate"
  /\ tText # <<>>
  /\ tExact' = "hit"
  /\ tResult' = <<[translated |-> STORED.translated, confidence |-> STORED.confidence,
                   source |-> "cosmos"]>>
  /\ tPc' = "returned"
  /\ UNCHANGED <<tBatch, tIdx, tIndex, tText, tRetries, tFuzzy, tCalls, tRequests,
                 tAnswers, tOut, tError, mvars, cvars, xvars>>

\* lookupExactTranslation returns null: the initial request is posted
TExactMiss ==
  /\ tPc = "translate"
  /\ tText # <<>>
  /\ tExact' = "miss"
  /\ tCalls' = 1
  /\ tRequests' = 1
  /\ tPc' = "initial"
  /\ UNCHANGED <<tBatch, tIdx, tIndex, tText, tRetries, tFuzzy, tAnswers, tResult,
                 tOut, tError, mvars, cvars, xvars>>

\* the backend answers "model loading": wait TIMEOUT and post again
TModelLoading ==
  /\ tPc \in {"initial", "enriched"}
  /\ tRequests < MaxRequests
  /\ tRequests' = tRequests + 1
  /\ UNCHANGED <<tPc, tBatch, tIdx, tIndex, tText, tRetries, tExact, tFuzzy, tCalls,
                 tAnswers, tResult, tOut, tError, mvars, cvars, xvars>>

\* the backend answers with another error
TBackendFails ==
  /\ tPc \in {"initial", "enriched"}
  /\ Throw("Translation failed: backend message")

lowConfidence(results) ==
  \E i \in 1..Len(results) : results[i].confidence < LOW_CONFIDENCE_THRESHOLD

\* The largest confidence among results, which are not empty
MaxConfidence(results) ==
  CHOOSE c \in {results[i].confidence : i \in 1..Len(results)} :
    \A i \in 1..Len(results) : results[i].confidence <= c

\* A mutant of TInitialAnswer: the enrichment round starts when the best
\* initial result is below the threshold.
TInitialAnswerByMax ==
  /\ tPc = "initial"
  /\ \E results \in Answers :
       /\ tAnswers' = <<results>>
       /\ IF \/ results = <<>>
             \/ MaxConfidence(results) >= LOW_CONFIDENCE_THRESHOLD
             \/ tRetries <= 0
             \/ TextLength(tText) > ENRICH_MAX_LENGTH
          THEN /\ tResult' = results
               /\ tPc' = "returned"
               /\ UNCHANGED <<tFuzzy, tCalls, tRequests>>
          ELSE /\ \E fuzzy \in {"empty", "found"} : tFuzzy' = fuzzy
               /\ tCalls' = tCalls + 1
               /\ tRequests' = 1
               /\ tPc' = "enriched"
               /\ UNCHANGED tResult
  /\ UNCHANGED <<tBatch, tIdx, tIndex, tText, tRetries, tExact, tOut, tError,
                 mvars, cvars, xvars>>

\* the initial callAITranslation returns its results
TInitialAnswer ==
  /\ tPc = "initial"
  /\ \E results \in Answers :
       /\ tAnswers' = <<results>>
       /\ IF \/ ~lowConfidence(results)
             \/ tRetries <= 0
             \/ TextLength(tText) > ENRICH_MAX_LENGTH
          THEN /\ tResult' = results
               /\ tPc' = "returned"
               /\ UNCHANGED <<tFuzzy, tCalls, tRequests>>
          ELSE /\ \E fuzzy \in {"empty", "found"} : tFuzzy' = fuzzy
               /\ tCalls' = tCalls + 1
               /\ tRequests' = 1
               /\ tPc' = "enriched"
               /\ UNCHANGED tResult
  /\ UNCHANGED <<tBatch, tIdx, tIndex, tText, tRetries, tExact, tOut, tError,
                 mvars, cvars, xvars>>

\* A mutant of TEnrichedAnswer: a low-confidence answer starts another round.
TEnrichedAnswerAgain ==
  /\ tPc = "enriched"
  /\ \E results \in Answers :
       /\ tAnswers' = Append(tAnswers, results)
       /\ IF lowConfidence(results) /\ tCalls < NUMBER_OF_RETRIES
          THEN /\ tCalls' = tCalls + 1
               /\ tRequests' = 1
               /\ UNCHANGED <<tPc, tResult>>
          ELSE /\ tResult' = results
               /\ tPc' = "returned"
               /\ UNCHANGED <<tCalls, tRequests>>
  /\ UNCHANGED <<tBatch, tIdx, tIndex, tText, tRetries, tExact, tFuzzy, tOut,
                 tError, mvars, cvars, xvars>>

\* the callAITranslation with the enriched prompt returns its results
TEnrichedAnswer ==
  /\ tPc = "enriched"
  /\ \E results \in Answers :
       /\ tAnswers' = Append(tAnswers, results)
       /\ tResult' = results
  /\ tPc' = "returned"
  /\ UNCHANGED <<tBatch, tIdx, tIndex, tText, tRetries, tExact, tFuzzy, tCalls,
                 tRequests, tOut, tError, mvars, cvars, xvars>>

\* aiResults[0], or the empty translation
bestAI(aiResults) ==
  IF aiResults # <<>>
  THEN [translated |-> aiResults[1].translated, confidence |-> aiResults[1].confidence,
        source |-> aiResults[1].source]
  ELSE [translated |-> "", confidence |-> 0, source |-> "aiTranslator"]

\* translateText has returned: the callback updates the index and returns
TReturn ==
  /\ tPc = "returned"
  /\ IF tBatch = <<>>
     THEN /\ tPc' = "done"
          /\ UNCHANGED <<tIndex, tOut, tIdx>>
     ELSE /\ tIndex' =
               IF bestAI(tResult).translated # ""
               THEN IndexSet(tIndex, indexKey(tText),
                             [translated |-> bestAI(tResult).translated,
                              confidence |-> bestAI(tResult).confidence])
               ELSE tIndex
          /\ tOut' = Append(tOut, bestAI(tResult))
          /\ tIdx' = tIdx + 1
          /\ tPc' = AfterUnit
  /\ UNCHANGED <<tBatch, tText, tRetries, tExact, tFuzzy, tCalls, tRequests,
                 tAnswers, tResult, tError, mvars, cvars, xvars>>

TNext ==
  \/ TCallback
  \/ TInvalidInput
  \/ TNotConfigured
  \/ TExactHit
  \/ TExactMiss
  \/ TModelLoading
  \/ TBackendFails
  \/ TInitialAnswer
  \/ TEnrichedAnswer
  \/ TReturn

SpecTranslate == TInit /\ [][TNext]_vars

\* C5: for a translateText request that misses the exact lookup the
\* enrichment round runs at most once; what the second callAITranslation
\* returns is returned as final whatever its confidence, and no third call
\* is made.
C5_BoundedEnrichment ==
  /\ tCalls <= 2
  /\ Len(tAnswers) <= tCalls
  /\ (tPc = "returned" /\ tCalls = 2) =>
       /\ Len(tAnswers) = 2
       /\ tResult = tAnswers[2]

\* C5 witness: translateText returned the results of the second call, one of
\* them below the threshold.
C5_Witness ==
  /\ tPc = "returned"
  /\ tCalls = 2
  /\ lowConfidence(tResult)

\* C6 as stated: the enrichment round starts exactly when the maximum
\* confidence among the initial results is below 0.70, retries remain and the
\* text has at most 80 characters; with a best initial result of at least
\* 0.70 the initial results are returned without a second call.
C6_MaxTrigger ==
  (Len(tAnswers) >= 1 /\ tAnswers[1] # <<>>) =>
     /\ tCalls = 2 <=>
          /\ MaxConfidence(tAnswers[1]) < LOW_CONFIDENCE_THRESHOLD
          /\ tRetries > 0
          /\ TextLength(tText) <= ENRICH_MAX_LENGTH
     /\ (tPc = "returned" /\ MaxConfidence(tAnswers[1]) >= LOW_CONFIDENCE_THRESHOLD)
          => tResult = tAnswers[1]

\* C6, amended: the enrichment round starts exactly when some initial result
\* has a confidence below 0.70, retries remain and the text has at most 80
\* characters; when every initial result has a confidence of at least 0.70
\* (or there is none) the initial results are returned without a second call.
C6_SomeTrigger ==
  Len(tAnswers) >= 1 =>
     /\ tCalls = 2 <=>
          /\ lowConfidence(tAnswers[1])
          /\ tRetries > 0
          /\ TextLength(tText) <= ENRICH_MAX_LENGTH
     /\ (tPc = "returned" /\ ~lowConfidence(tAnswers[1]))
          => tCalls = 1 /\ tResult = tAnswers[1]

\* C6 witness: the enrichment round was started on initial results whose
\* best confidence is at the threshold and whose other is below it.
C6_Witness ==
  /\ tPc = "enriched"
  /\ tCalls = 2
  /\ MaxConfidence(tAnswers[1]) >= LOW_CONFIDENCE_THRESHOLD
  /\ lowConfidence(tAnswers[1])

\* C7: while the backend keeps answering "model loading", one
\* callAITranslation posts no more than its first request and a fixed number
\* of retries.
C7_BoundedWarmUp == tRequests <= 1 + NUMBER_OF_RETRIES

\* C8: when the fuzzy lookup returns an empty list, a low-confidence
\* translateText request makes no second backend call and returns the
\* initial results.
C8_SkipsEnrichment ==
  tFuzzy = "empty" =>
    /\ tCalls = 1
    /\ tPc = "returned" => tResult = tAnswers[1]

\* Between two states: a request is posted only for a text that missed the
\* open-file index (in a batch) and the exact lookup; an exact hit returns
\* the single stored translation labelled 'cosmos' with no request posted.
C9_Step ==
  /\ (tRequests' # tRequests /\ tRequests' > 0) =>
       /\ tExact' = "miss"
       /\ tPc \in {"translate", "initial", "enriched"}
       /\ tBatch # <<>> =>
            ~lookupExistingTranslationFromIndex(tIndex, tText').found
  /\ (tExact' = "hit" /\ tExact # "hit") =>
       /\ tResult' = <<[translated |-> STORED.translated,
                        confidence |-> STORED.confidence, source |-> "cosmos"]>>
       /\ tCalls' = 0
       /\ tRequests' = 0
  /\ tExact = "hit" => tCalls' = 0 /\ tRequests' = 0
  /\ (tBatch # <<>> /\ Len(tOut') > Len(tOut) /\ tPc = "returned" /\ tExact = "hit") =>
       tOut'[Len(tOut')] = [translated |-> STORED.translated,
                            confidence |-> STORED.confidence, source |-> "cosmos"]

\* C9: for every unit translated in a batch run, the backend is called only
\* after the open-file index lookup missed and the exact store lookup
\* missed; on an exact-lookup hit translateText returns that single stored
\* translation with source label 'cosmos' and issues no backend request.
C9_CacheBeforeAI == [][C9_Step]_vars

\* C9 witness: in a batch, a text that missed the index was found by the
\* exact lookup, after an earlier text had been sent to the backend.
C9_Witness ==
  /\ tBatch # <<>>
  /\ tPc = "returned"
  /\ tExact = "hit"
  /\ tIdx = 1
  /\ tOut[1].source = "aiTranslator"

(***************************************************************************)
(* SpecMatcher: one search of a document for the unit of a captured        *)
(* element, with diagnostics (findXliffCandidatesFromDomWithDiagnostics)   *)
(* and by the translated text alone (findXliffCandidates).                 *)
(***************************************************************************)
QInit ==
  /\ qPc = "init"
  /\ qContent \in MatchDocs
  /\ qContext \in MatchContexts
  /\ qResult = NoDiagnostics
  /\ qPlain = <<>>
  /\ qInternal = <<>>
  /\ MOff
  /\ COff
  /\ TOff
  /\ SOff
  /\ EOff
  /\ ZOff

QFromDom ==
  /\ qPc = "init"
  /\ qResult' = findXliffCandidatesFromDomWithDiagnostics(qContent, qContext)
  /\ qPc' = "dom"
  /\ UNCHANGED <<qContent, qContext, qPlain, qInternal, mvars, cvars, tvars, svars, evars, zvars>>

QFind ==
  /\ qPc = "dom"
  /\ qPlain' = findXliffCandidates(qContent, qContext.translatedText, qContext)
  /\ qPc' = "done"
  /\ UNCHANGED <<qContent, qContext, qResult, qInternal, mvars, cvars, tvars, svars, evars, zvars>>

\* findXliffCandidatesInternal on the text candidates of the same context
QInternal ==
  /\ qPc = "done"
  /\ qInternal' = findXliffCandidatesInternal(qContent,
                                              collectTextCandidates(TextEntries(qContext)),
                                              qContext)
  /\ qPc' = "compared"
  /\ UNCHANGED <<qContent, qContext, qResult, qPlain, mvars, cvars, tvars, svars, evars,
                 zvars>>

QNext == QFromDom \/ QFind \/ QInternal

SpecMatcher == QInit /\ [][QNext]_vars

\* The trans-unit blocks of a document, in document order
RECURSIVE BlocksOf(_)
BlocksOf(content) ==
  IF unitRe(content) = <<0, 0>> THEN <<>>
  ELSE <<SubSeq(content, unitRe(content)[1], unitRe(content)[2])>>
         \o BlocksOf(SubSeq(content, unitRe(content)[2] + 1, Len(content)))

BlockId(block) == block[1][2]

\* The candidates of a search of the block alone
AloneDom(block, context) ==
  findXliffCandidatesFromDomWithDiagnostics(block, context).candidates

AlonePlain(block, context) ==
  findXliffCandidates(block, context.translatedText, context)

\* No two candidates of cs are of the same unit
UniqueIds(cs) == \A i, j \in 1..Len(cs) : i # j => cs[i].unitId # cs[j].unitId

\* The candidate c has the highest confidence among the candidates that the
\* blocks of its unit give alone (alone is the sequence of those candidates)
BestOf(c, blocks, alone) ==
  /\ \A k \in 1..Len(blocks) :
       (BlockId(blocks[k]) = c.unitId /\ alone[k] # <<>>)
         => alone[k][1].confidence <= c.confidence
  /\ \E k \in 1..Len(blocks) :
       /\ BlockId(blocks[k]) = c.unitId
       /\ alone[k] # <<>>
       /\ alone[k][1].confidence = c.confidence

AllBest(cs, blocks, alone) == \A i \in 1..Len(cs) : BestOf(cs[i], blocks, alone)

AllAloneDom(blocks, context) == [k \in 1..Len(blocks) |-> AloneDom(blocks[k], context)]

AllAlonePlain(blocks, context) == [k \in 1..Len(blocks) |-> AlonePlain(blocks[k], context)]

\* C11: the list the matcher returns never holds two candidates with the
\* same unitId, and when the document holds several matching blocks with the
\* same id, the candidate retained has the highest confidence among them.
C11_UniqueBest ==
  /\ qPc # "init" =>
       /\ UniqueIds(qResult.candidates)
       /\ AllBest(qResult.candidates, BlocksOf(qContent),
                  AllAloneDom(BlocksOf(qContent), qContext))
  /\ qPc = "done" =>
       /\ UniqueIds(qPlain)
       /\ AllBest(qPlain, BlocksOf(qContent),
                  AllAlonePlain(BlocksOf(qContent), qContext))

\* Two blocks of one unit match with different confidences, the later one
\* with the higher
LaterIsBetter(blocks, alone) ==
  /\ Len(blocks) = 2
  /\ BlockId(blocks[1]) = BlockId(blocks[2])
  /\ alone[1] # <<>>
  /\ alone[2] # <<>>
  /\ alone[1][1].confidence < alone[2][1].confidence

\* C11 witness: a document with two matching blocks of the same unit, the
\* second with the higher confidence, has been searched and the unit returned.
C11_Witness ==
  /\ qPc = "dom"
  /\ Len(qResult.candidates) = 1
  /\ LaterIsBetter(BlocksOf(qContent), AllAloneDom(BlocksOf(qContent), qContext))

\* The target of the block normalizes to the normalization of the raw text
MatchesText(raw, block) ==
  /\ raw # <<>>
  /\ normalizeText(raw) # <<>>
  /\ normalizeText(raw) = normalizeText(TargetOf(block))

\* The block has a target that matches one of the texts of the context
TextMatched(block, context) ==
  /\ targetRe(block) # <<0, 0>>
  /\ \E k \in 1..Len(TextEntries(context)) :
       MatchesText(Trim(TextEntries(context)[k].text), block)

\* The block is text-matched and its id follows one of the two grammars
Parsed(block, context) ==
  TextMatched(block, context) /\ parseTransUnitId(BlockId(block)).ok

PropertyOk(block, expected) ==
  expected = "" \/ parseTransUnitId(BlockId(block)).propertyId = expected

Named(context) == context.pageName # <<>> \/ context.tableName # <<>>

NoteMatches(note, context) ==
  isPageMatch(context, Lower(note)) \/ isTableMatch(context, Lower(note))

AffinityOk(block, context) ==
  ~Named(context) \/ NoteOf(block) = <<>> \/ NoteMatches(NoteOf(block), context)

\* The block passes both hard filters
Survives(block, context) ==
  /\ Parsed(block, context)
  /\ PropertyOk(block, getExpectedPropertyId(context))
  /\ AffinityOk(block, context)

\* The block is of a page or a page extension
PageBlock(block) ==
  LowerStr(parseTransUnitId(BlockId(block)).objectType) \in {"page", "pageextension"}

\* The unit of the block is among the candidates, or gave way to a page
Kept(block, cs) ==
  \/ \E i \in 1..Len(cs) : cs[i].unitId = BlockId(block)
  \/ (\E i \in 1..Len(cs) : IsPageType(cs[i])) /\ ~PageBlock(block)

PropertyFilterOk(result, plain, blocks, context, expected) ==
  IF expected # ""
  THEN /\ \A i \in 1..Len(result.candidates) :
            result.candidates[i].propertyId = expected
       /\ \A i \in 1..Len(plain) : plain[i].propertyId = expected
       /\ result.diagnostics.propertyFilteredCount =
            Cardinality({k \in 1..Len(blocks) :
                           Parsed(blocks[k], context) /\ ~PropertyOk(blocks[k], expected)})
  ELSE /\ result.diagnostics.propertyFilteredCount = 0
       /\ \A k \in 1..Len(blocks) :
            (Parsed(blocks[k], context) /\ AffinityOk(blocks[k], context))
              => Kept(blocks[k], result.candidates)

\* C12: when the context yields an expected property id, every candidate
\* returned has that property id and every text-matched unit with a parseable
\* id and another property id is counted in propertyFilteredCount; when the
\* context yields none (isToolTip is no boolean and propertyType is neither
\* caption nor tooltip), no unit is rejected for its property id.
C12_PropertyFilter ==
  qPc # "init" =>
    PropertyFilterOk(qResult, qPlain, BlocksOf(qContent), qContext,
                     getExpectedPropertyId(qContext))

\* C12 witness: a search with an expected property id returned a unit and
\* rejected another for its property id.
C12_Witness ==
  /\ qPc = "done"
  /\ getExpectedPropertyId(qContext) # ""
  /\ qResult.candidates # <<>>
  /\ qPlain # <<>>
  /\ qResult.diagnostics.propertyFilteredCount > 0

AffinityFilterOk(result, plain, blocks, context, expected) ==
  /\ Named(context) =>
       /\ \A i \in 1..Len(result.candidates) :
            result.candidates[i].note # <<>>
              => NoteMatches(result.candidates[i].note, context)
       /\ \A i \in 1..Len(plain) :
            plain[i].note # <<>> => NoteMatches(plain[i].note, context)
  /\ result.diagnostics.pageTableFilteredCount =
       Cardinality({k \in 1..Len(blocks) :
                      /\ Parsed(blocks[k], context)
                      /\ PropertyOk(blocks[k], expected)
                      /\ ~AffinityOk(blocks[k], context)})
  /\ \A k \in 1..Len(blocks) :
       (/\ Parsed(blocks[k], context)
        /\ PropertyOk(blocks[k], expected)
        /\ (~Named(context) \/ NoteOf(blocks[k]) = <<>>))
         => Kept(blocks[k], result.candidates)

\* C13: when the context carries a pageName or a tableName, every candidate
\* returned that has a developer note has a note that page-matches or
\* table-matches the context, and each unit rejected for its note is counted
\* in pageTableFilteredCount; a unit without a note, and any unit when the
\* context has neither name, is never rejected by this filter.
C13_AffinityFilter ==
  qPc # "init" =>
    AffinityFilterOk(qResult, qPlain, BlocksOf(qContent), qContext,
                     getExpectedPropertyId(qContext))

\* C13 witness: under a context with a name, a unit was rejected for its
\* note while a unit without a note was returned.
C13_Witness ==
  /\ qPc = "done"
  /\ Named(qContext)
  /\ qResult.diagnostics.pageTableFilteredCount > 0
  /\ \E i \in 1..Len(qResult.candidates) : qResult.candidates[i].note = <<>>

NoTableType(cs) ==
  \A i \in 1..Len(cs) : LowerStr(cs[i].objectType) \notin {"table", "tableextension"}

SomePageSurvives(blocks, context) ==
  \E k \in 1..Len(blocks) : Survives(blocks[k], context) /\ PageBlock(blocks[k])

\* The context as findXliffCandidates reads it: the translated text is the
\* only text searched for
TextOnly(context) ==
  [context EXCEPT !.innerText = <<>>, !.titleAttribute = <<>>,
                  !.ariaLabel = <<>>, !.placeholder = <<>>]

\* C14: whenever a candidate of object type Page or PageExtension survived
\* the hard filters, the list returned holds no candidate of object type
\* Table or TableExtension.
C14_Priority ==
  /\ (qPc # "init" /\ SomePageSurvives(BlocksOf(qContent), qContext))
       => NoTableType(qResult.candidates)
  /\ (qPc = "done" /\ SomePageSurvives(BlocksOf(qContent), TextOnly(qContext)))
       => NoTableType(qPlain)

\* C14 witness: a page unit and a table unit both survived the hard filters
\* and the search returned.
C14_Witness ==
  /\ qPc = "done"
  /\ SomePageSurvives(BlocksOf(qContent), TextOnly(qContext))
  /\ \E k \in 1..Len(BlocksOf(qContent)) :
       /\ Survives(BlocksOf(qContent)[k], TextOnly(qContext))
       /\ ~PageBlock(BlocksOf(qContent)[k])
  /\ qResult.candidates # <<>>
  /\ qPlain # <<>>

\* The scenario of the score example: a document that holds the unit
\* "Table 100 - Property 2879900210" with target "Item" has been searched for
\* "Item" with the context {elementType: "Field", propertyType: "Caption"}
C15_Scenario ==
  /\ qPc = "done"
  /\ \E k \in 1..Len(BlocksOf(qContent)) :
       BlocksOf(qContent)[k] = CmdUnit(ID_TP, Txt("Item"), <<>>)
  /\ qContext.translatedText = Txt("Item")
  /\ qContext.elementType = "Field"
  /\ qContext.propertyType = "Caption"
  /\ qContext.uiArea = ""
  /\ ~Named(qContext)

\* C15: in the scenario the search returns exactly one candidate, of object
\* type Table, with the Caption property id and a confidence of at least 0.85.
C15_ScoreAtLeast85 ==
  C15_Scenario =>
    /\ Len(qPlain) = 1
    /\ qPlain[1].objectType = "Table"
    /\ qPlain[1].propertyId = PROPERTY_CAPTION
    /\ qPlain[1].confidence >= 850

\* C15 as amended: in the scenario the search returns exactly one candidate,
\* of object type Table, with the Caption property id and the confidence
\* 0.80 (the base 0.5, 0.1 for the weight 1.0 and 0.2 for the property id).
C15_ScoreIs80 ==
  C15_Scenario =>
    /\ Len(qPlain) = 1
    /\ qPlain[1].objectType = "Table"
    /\ qPlain[1].propertyId = PROPERTY_CAPTION
    /\ qPlain[1].confidence = 800
    /\ Len(qResult.candidates) = 1
    /\ qResult.candidates[1].confidence = 800

\* C15 witness: the scenario has been searched and a candidate returned.
C15_Witness == C15_Scenario /\ qPlain # <<>>

\* C16: diagnostics.finalMatchCount is the number of candidates in the list
\* the matcher returns, after deduplication and after the priority filter.
C16_FinalCount ==
  qPc # "init" => qResult.diagnostics.finalMatchCount = Len(qResult.candidates)

\* C17: whenever the matcher returns an empty list, diagnostics.filterReason
\* is set to a reason, also when every text-matched unit was skipped because
\* its id follows neither grammar.
C17_Explained ==
  (qPc # "init" /\ qResult.candidates = <<>>) => qResult.diagnostics.filterReason # ""

(***************************************************************************)
(* SpecSelection: applyFirstTranslation on the open document, called with  *)
(* any source text, and translateSelectionCommand for the unit under the   *)
(* cursor.                                                                 *)
(***************************************************************************)
\* The attributes of a rewritten target: state, confidence (in hundredths in
\* the model, toFixed(2) in the text) and translationSource
TargetAttrs(confidence, translationSource) ==
  CASE translationSource = "file" /\ confidence = 100 ->
         "state=translated confidence=1.00 translationSource=file"
    [] translationSource = "file" /\ confidence # 100 ->
         "state=translated confidence=0.90 translationSource=file"
    [] OTHER -> "state=translated confidence=0.90 translationSource=aiTranslator"

\* upsertAttr of state, confidence and translationSource on the attributes
\* of a target in state needs-translation
upsertAttr(attrsRaw, confidence, translationSource) ==
  TargetAttrs(confidence, translationSource)

\* targetTagRe = /<target\b([^>]*)>([\s\S]*?)<\/target>|<target\b([^>]*)\/>/i
\* the leftmost match: a target element, else a self-closing target tag
targetTagRe(unit) ==
  IF targetRe(unit) # <<0, 0>> THEN targetRe(unit)
  ELSE <<targetSelfClosingRe(unit), targetSelfClosingRe(unit)>>

\* /state\s*=\s*"needs-translation"/i on the attributes of a target tag
needsTranslation(attrsRaw) == attrsRaw = ATTR_NT

\* The callback of raw.replace in applyFirstTranslation for a unit that no
\* replacement precedes
replaceUnit(unit, needle, translatedText, confidence, translationSource) ==
  IF captureInner(unit) = <<>> \/ Lower(normXml(captureInner(unit))) # needle
  THEN unit
  ELSE IF targetTagRe(unit) = <<0, 0>> THEN unit
  ELSE IF ~needsTranslation(unit[targetTagRe(unit)[1]][2]) THEN unit
  ELSE ReplaceMatch(unit, targetTagRe(unit)[1], targetTagRe(unit)[2],
                    <<TGT(upsertAttr(unit[targetTagRe(unit)[1]][2], confidence,
                                         translationSource))>>
                      \o xmlEscape(translatedText) \o <<TGTC>>,
                    <<>>)

\* raw.replace(/<trans-unit ...>/gi, callback): the units up to the first
\* one the callback changes go through the callback, the later ones stay
RECURSIVE replaceUnits(_, _, _, _, _)
replaceFromEvery(raw, needle, translatedText, confidence, translationSource, m, replaced) ==
  IF m = <<0, 0>> THEN raw
  ELSE SubSeq(raw, 1, m[1] - 1) \o replaced
         \o replaceUnits(SubSeq(raw, m[2] + 1, Len(raw)), needle, translatedText,
                         confidence, translationSource)

replaceFrom(raw, needle, translatedText, confidence, translationSource, m, replaced) ==
  IF m = <<0, 0>> THEN raw
  ELSE IF replaced # SubSeq(raw, m[1], m[2])
  THEN SubSeq(raw, 1, m[1] - 1) \o replaced \o SubSeq(raw, m[2] + 1, Len(raw))
  ELSE SubSeq(raw, 1, m[2])
         \o replaceUnits(SubSeq(raw, m[2] + 1, Len(raw)), needle, translatedText,
                         confidence, translationSource)

replaceUnits(raw, needle, translatedText, confidence, translationSource) ==
  replaceFrom(raw, needle, translatedText, confidence, translationSource,
              transUnitRe(raw),
              IF transUnitRe(raw) = <<0, 0>> THEN <<>>
              ELSE replaceUnit(SubSeq(raw, transUnitRe(raw)[1], transUnitRe(raw)[2]),
                               needle, translatedText, confidence, translationSource))

\* applyFirstTranslation on the document raw: whether it edited, and the
\* text of the document afterwards
applyFirstResult(raw, newText) == [ok |-> newText # raw, text |-> newText]

applyFirstTranslation(raw, sourceText, translatedText, confidence, translationSource) ==
  applyFirstResult(raw, replaceUnits(raw, Lower(normXml(sourceText)), translatedText,
                                     confidence, translationSource))

\* The entry of lookupExistingTranslationsInOpenFile for the unit, added to
\* results unless the unit does not match, has no target text, or its text
\* was seen
existingOf(results, unit, needle) ==
  IF captureInner(unit) = <<>> \/ Lower(normXml(captureInner(unit))) # needle
  THEN results
  ELSE IF targetRe(unit) = <<0, 0>> THEN results
  ELSE IF normXml(TargetOf(unit)) = <<>> THEN results
  ELSE IF \E i \in 1..Len(results) :
            Lower(results[i].translated) = Lower(normXml(TargetOf(unit)))
  THEN results
  ELSE Append(results, [translated |-> normXml(TargetOf(unit)),
                        confidence |-> confidenceOf(unit[targetRe(unit)[1]][2])])

RECURSIVE existingFrom(_, _, _)
existingFrom(results, text, needle) ==
  IF transUnitRe(text) = <<0, 0>> THEN results
  ELSE existingFrom(existingOf(results,
                               SubSeq(text, transUnitRe(text)[1], transUnitRe(text)[2]),
                               needle),
                    SubSeq(text, transUnitRe(text)[2] + 1, Len(text)), needle)

lookupExistingTranslationsInOpenFile(text, sourceText) ==
  existingFrom(<<>>, text, Lower(normXml(sourceText)))

\* findTransUnitBlock: the first block around the offset position, as the
\* places of its first and last token, or <<0, 0>>; base tokens precede text
RECURSIVE findTransUnitBlock(_, _, _)
findTransUnitBlock(text, position, base) ==
  IF transUnitRe(text) = <<0, 0>> THEN <<0, 0>>
  ELSE IF /\ position >= base + transUnitRe(text)[1] - 1
          /\ position <= base + transUnitRe(text)[2]
  THEN <<base + transUnitRe(text)[1], base + transUnitRe(text)[2]>>
  ELSE findTransUnitBlock(SubSeq(text, transUnitRe(text)[2] + 1, Len(text)),
                          position, base + transUnitRe(text)[2])

\* /<target[^>]*>.*?<\/target>/ and /(<source>.*?<\/source>)/ : the leftmost
\* element of the kind whose text holds no line break (. matches none)
OneLineMatch(block, kind, close) ==
  IF \E i \in 1..Len(block) :
       /\ Kind(block[i]) = kind
       /\ FirstTok(block, i + 1, close) # 0
       /\ FirstTok(SubSeq(block, 1, FirstTok(block, i + 1, close)), i + 1, NL) = 0
  THEN <<MinOf({i \in 1..Len(block) :
                  /\ Kind(block[i]) = kind
                  /\ FirstTok(block, i + 1, close) # 0
                  /\ FirstTok(SubSeq(block, 1, FirstTok(block, i + 1, close)),
                              i + 1, NL) = 0}),
         FirstTok(block,
                  MinOf({i \in 1..Len(block) :
                           /\ Kind(block[i]) = kind
                           /\ FirstTok(block, i + 1, close) # 0
                           /\ FirstTok(SubSeq(block, 1, FirstTok(block, i + 1, close)),
                                       i + 1, NL) = 0}) + 1,
                  close)>>
  ELSE <<0, 0>>

updateTargetWith(block, targetTag, pair, src) ==
  IF targetSelfClosingRe(block) # 0
  THEN ReplaceMatch(block, targetSelfClosingRe(block), targetSelfClosingRe(block),
                    targetTag, <<>>)
  ELSE IF pair # <<0, 0>>
  THEN ReplaceMatch(block, pair[1], pair[2], targetTag, <<>>)
  ELSE IF src # <<0, 0>>
  THEN ReplaceMatch(block, src[1], src[2],
                    <<Ch("$"), Ch("1"), NL, SP, SP, SP, SP>> \o targetTag,
                    <<SubSeq(block, src[1], src[2])>>)
  ELSE block

updateTargetInBlock(block, translated, confidence, source) ==
  updateTargetWith(block,
                   <<TGT(TargetAttrs(confidence, source))>> \o xmlEscape(translated)
                     \o <<TGTC>>,
                   OneLineMatch(block, "tgt", TGTC), OneLineMatch(block, "src", SRCC))

\* The document after the pick: what applyFirstTranslation made of it, or
\* else the document with the range m replaced by replaceBlock: the block is
\* the text the command found at m when it began
writePick(text, block, m, first, translated, confidence, source) ==
  IF first.ok THEN first.text
  ELSE SubSeq(text, 1, m[1] - 1)
         \o updateTargetInBlock(block, translated, confidence, source)
         \o SubSeq(text, m[2] + 1, Len(text))

\* translations[0].translated.split(/\n|\|/).map(trim).filter(str => str)
RECURSIVE splitOptions(_, _)
splitOptions(text, current) ==
  IF text = <<>> THEN (IF Trim(current) = <<>> THEN <<>> ELSE <<Trim(current)>>)
  ELSE IF text[1] \in {NL, Ch("|")}
  THEN (IF Trim(current) = <<>> THEN <<>> ELSE <<Trim(current)>>)
         \o splitOptions(Tail(text), <<>>)
  ELSE splitOptions(Tail(text), Append(current, text[1]))

\* The trans-units of the open document: sources "a", "A " and "b", an empty
\* and a blank source; targets in state needs-translation (element and
\* self-closing tag), a translated target, and no target
SelUnit(id, source, target) == <<TU(id), SRC>> \o source \o <<SRCC>> \o target \o <<TUC>>

SelShapes ==
  { <<Txt("a"), <<TGT(ATTR_NT), TGTC>>>>,
    <<Txt("a"), <<TGTS(ATTR_NT)>>>>,
    <<Txt("a"), <<TGT(ATTR_UC), Ch("t"), TGTC>>>>,
    <<Txt("a"), <<>>>>,
    <<<<Ch("A"), SP>>, <<TGT(ATTR_NT), TGTC>>>>,
    <<<<>>, <<TGT(ATTR_NT), TGTC>>>>,
    <<<<SP>>, <<TGT(ATTR_UC), Ch("t"), TGTC>>>>,
    <<Txt("b"), <<TGT(ATTR_NT), NL, TGTC>>>> }

SelIds == <<"u1", "u2", "u3", "u4">>

RECURSIVE SelJoin(_, _)
SelJoin(shapes, k) ==
  IF shapes = <<>> THEN <<>>
  ELSE SelUnit(SelIds[k], shapes[1][1], shapes[1][2]) \o <<NL>>
         \o SelJoin(Tail(shapes), k + 1)

SelDocs ==
  {Head1 \o SelJoin(shapes, 1) \o <<XTAG("/body")>> :
     shapes \in UNION {[1..n -> SelShapes] : n \in 1..MaxUnits}}

\* The cursor: before the first unit, or just inside the opening tag of a unit
Cursors(text) == {0} \cup {i \in 1..Len(text) : Kind(text[i]) = "tu"}

\* The texts handed to applyFirstTranslation as translation
SelTexts == {Txt("t"), <<Ch("$"), Ch("&")>>}

\* What translateText gives the command: a throw, no result, or a result
AiTexts == {Txt("t"), <<Ch("t"), Ch("|"), SP, Ch("$"), Ch("&")>>, <<NL>>}

SInit ==
  /\ sPc = "idle"
  /\ sDoc \in SelDocs
  /\ sBefore = sDoc
  /\ sEdited = sDoc
  /\ sCursor \in Cursors(sDoc)
  /\ sBlock = <<0, 0>>
  /\ sSource = <<>>
  /\ sOptions = <<>>
  /\ sPicked = <<>>
  /\ sOk = "none"
  /\ MOff
  /\ COff
  /\ TOff
  /\ QOff
  /\ EOff
  /\ ZOff

\* applyFirstTranslation(sourceText, translatedText, confidence, translationSource)
SApplyFirst ==
  /\ sPc = "idle"
  /\ \E sourceText \in {Txt("a"), Txt("b"), <<>>}, translatedText \in SelTexts,
        translationSource \in {"file", "aiTranslator"} :
       \E r \in {applyFirstTranslation(sDoc, sourceText, translatedText, 90,
                                        translationSource)} :
         /\ sDoc' = r.text
         /\ sOk' = IF r.ok THEN "true" ELSE "false"
         /\ sSource' = sourceText
         /\ sPicked' = translatedText
  /\ sPc' = "applied"
  /\ UNCHANGED <<sBefore, sEdited, sCursor, sBlock, sOptions, mvars, cvars, tvars, qvars, evars, zvars>>

\* translateSelectionCommand up to the first quick pick
SCommand ==
  /\ sPc = "idle"
  /\ \E m \in {findTransUnitBlock(sDoc, sCursor, 0)} :
       /\ sBlock' = m
       /\ IF m = <<0, 0>> \/ sourceRe(SubSeq(sDoc, m[1], m[2])) = <<0, 0>>
          THEN /\ sPc' = "stopped"
               /\ UNCHANGED <<sSource, sOptions>>
          ELSE \E sourceText \in
                   {Trim(SubSeq(sDoc, m[1] + sourceRe(SubSeq(sDoc, m[1], m[2]))[1],
                                m[1] + sourceRe(SubSeq(sDoc, m[1], m[2]))[2] - 2))} :
                 /\ sSource' = sourceText
                 /\ sOptions' = lookupExistingTranslationsInOpenFile(sDoc, sourceText)
                 /\ sPc' = IF sOptions' # <<>> THEN "existing" ELSE "ask"
  /\ UNCHANGED <<sDoc, sBefore, sEdited, sCursor, sPicked, sOk, mvars, cvars, tvars, qvars, evars, zvars>>

\* The user picks an existing translation
SPickExisting ==
  /\ sPc = "existing"
  /\ \E i \in 1..Len(sOptions) :
       \E first \in {applyFirstTranslation(sDoc, sSource, sOptions[i].translated,
                                            sOptions[i].confidence, "file")} :
         /\ sPicked' = sOptions[i].translated
         /\ sOk' = IF first.ok THEN "true" ELSE "false"
         /\ sDoc' = writePick(sDoc, SubSeq(sBefore, sBlock[1], sBlock[2]), sBlock, first,
                              sOptions[i].translated,
                              sOptions[i].confidence, "file")
  /\ sPc' = "done"
  /\ UNCHANGED <<sBefore, sEdited, sCursor, sBlock, sSource, sOptions, mvars, cvars, tvars, qvars, evars, zvars>>

\* The user asks for AI proposals: translateText throws, gives nothing, or
\* gives a text that is split into options
SGetAI ==
  /\ sPc \in {"existing", "ask"}
  /\ \/ /\ sPc' = "stopped"
        /\ sOptions' = <<>>
     \/ /\ sSource # <<>>
        /\ \E text \in AiTexts :
             /\ sOptions' = splitOptions(text, <<>>)
             /\ sPc' = IF sOptions' = <<>> THEN "stopped" ELSE "options"
  /\ UNCHANGED <<sDoc, sBefore, sEdited, sCursor, sBlock, sSource, sPicked, sOk, mvars, cvars,
                 tvars, qvars, evars, zvars>>

\* The user picks one of the AI options
SPickAI ==
  /\ sPc = "options"
  /\ \E i \in 1..Len(sOptions) :
       \E first \in {applyFirstTranslation(sDoc, sSource, sOptions[i], 90,
                                            "aiTranslator")} :
         /\ sPicked' = sOptions[i]
         /\ sOk' = IF first.ok THEN "true" ELSE "false"
         /\ sDoc' = writePick(sDoc, SubSeq(sBefore, sBlock[1], sBlock[2]), sBlock, first,
                              sOptions[i], 90, "aiTranslator")
  /\ sPc' = "done"
  /\ UNCHANGED <<sBefore, sEdited, sCursor, sBlock, sSource, sOptions, mvars, cvars, tvars, qvars, evars, zvars>>

\* The user leaves a quick pick with ESC
SEscape ==
  /\ sPc \in {"existing", "ask", "options"}
  /\ sPc' = "stopped"
  /\ UNCHANGED <<sDoc, sBefore, sEdited, sCursor, sBlock, sSource, sOptions, sPicked, sOk,
                 mvars, cvars, tvars, qvars, evars, zvars>>

\* The user edits the document while the command waits for a pick or for
\* the backend: a line break is typed at the start or at the end of the file
SEdit ==
  /\ sPc \in {"existing", "ask", "options"}
  /\ sEdited = sBefore
  /\ \E edited \in {<<NL>> \o sDoc, sDoc \o <<NL>>} :
       /\ sDoc' = edited
       /\ sEdited' = edited
  /\ UNCHANGED <<sPc, sBefore, sCursor, sBlock, sSource, sOptions, sPicked, sOk,
                 mvars, cvars, tvars, qvars, evars, zvars>>

SNext ==
  SApplyFirst \/ SCommand \/ SPickExisting \/ SGetAI \/ SPickAI \/ SEscape \/ SEdit

SpecSelection == SInit /\ [][SNext]_vars

\* The trans-unit blocks of a document in document order: first and last token
RECURSIVE UnitRanges(_, _)
UnitRanges(text, base) ==
  IF transUnitRe(text) = <<0, 0>> THEN <<>>
  ELSE <<<<base + transUnitRe(text)[1], base + transUnitRe(text)[2]>>>>
         \o UnitRanges(SubSeq(text, transUnitRe(text)[2] + 1, Len(text)),
                       base + transUnitRe(text)[2])

UnitAt(text, range) == SubSeq(text, range[1], range[2])

SourceInner(unit) == SubSeq(unit, sourceRe(unit)[1] + 1, sourceRe(unit)[2] - 1)

\* The source of the unit normalizes to the needle of sourceText
SourceIsNeedle(unit, sourceText) ==
  /\ sourceRe(unit) # <<0, 0>>
  /\ Lower(normXml(SourceInner(unit))) = Lower(normXml(sourceText))

\* The target of the unit has state "needs-translation"
TargetNeedsTranslation(unit) ==
  /\ targetTagRe(unit) # <<0, 0>>
  /\ unit[targetTagRe(unit)[1]][2] = ATTR_NT

\* The units applyFirstTranslation may change, as the claim words them, and
\* as the guard on the captured source narrows them
Addressed(text, sourceText) ==
  {k \in 1..Len(UnitRanges(text, 0)) :
     /\ SourceIsNeedle(UnitAt(text, UnitRanges(text, 0)[k]), sourceText)
     /\ TargetNeedsTranslation(UnitAt(text, UnitRanges(text, 0)[k]))}

AddressedNonEmpty(text, sourceText) ==
  {k \in Addressed(text, sourceText) :
     stripCdata(SourceInner(UnitAt(text, UnitRanges(text, 0)[k]))) # <<>>}

\* The call changed the unit at range and nothing else of the document
OnlyChanged(before, after, range) ==
  /\ Len(after) >= Len(before) - (range[2] - range[1] + 1)
  /\ SubSeq(after, 1, range[1] - 1) = SubSeq(before, 1, range[1] - 1)
  /\ SubSeq(after, Len(after) - (Len(before) - range[2]) + 1, Len(after))
       = SubSeq(before, range[2] + 1, Len(before))
  /\ SubSeq(after, range[1], Len(after) - (Len(before) - range[2]))
       # UnitAt(before, range)

\* What the call must have done when the units it addresses are those of set
Applied(set) ==
  IF set = {}
  THEN sOk = "false" /\ sDoc = sBefore
  ELSE sOk = "true" /\ OnlyChanged(sBefore, sDoc, UnitRanges(sBefore, 0)[MinOf(set)])

CursorUnit == CHOOSE k \in 1..Len(UnitRanges(sBefore, 0)) : UnitRanges(sBefore, 0)[k][1] = sBlock[1]

\* The unit holds the text as the content of its target
HoldsTarget(unit, text) ==
  /\ targetRe(unit) # <<0, 0>>
  /\ Kind(unit[targetRe(unit)[1]]) = "tgt"
  /\ SubSeq(unit, targetRe(unit)[1] + 1, targetRe(unit)[2] - 1) = xmlEscape(text)

\* C19: whenever translateSelectionCommand completes after the user picked
\* a translation, the trans-unit that was under the cursor holds the picked
\* text as its target, also when an earlier unit of the document has the
\* same source text and state "needs-translation".
C19_UnderCursor ==
  sPc = "done" => HoldsTarget(UnitAt(sDoc, UnitRanges(sDoc, 0)[CursorUnit]), sPicked)

\* The case the claim singles out: a plain text was picked for a unit that
\* needs translation, an earlier unit with the same source needs it too, and
\* the command completed
C19_EarlierTwin ==
  /\ sPc = "done"
  /\ sPicked = Txt("t")
  /\ TargetNeedsTranslation(UnitAt(sBefore, sBlock))
  /\ \E k \in AddressedNonEmpty(sBefore, sSource) : k < CursorUnit

\* ---------------------------------------------------------------------
\* SpecExport: exportTranslationToDB, run after run into one container
\* ---------------------------------------------------------------------

\* The runs of the export that are followed
MaxRuns == 3

\* unit['@_id']?.trim(), on the ids of the files below
TrimId(id) == IF id = "u1 " THEN "u1" ELSE id

ExportUnit(id, source, target, state) == [id |-> id, source |-> source, target |-> target, state |-> state]

\* The files: one unit; two units; the id of the first file under another
\* source, and a unit that still needs translation; an id twice, once with
\* a blank after it; a unit without id; a unit without target text; no unit
ExportFiles ==
  << <<ExportUnit("u1", "a", "t", "translated")>>,
     <<ExportUnit("u1", "a", "t", "translated"), ExportUnit("u2", "a", "t", "translated")>>,
     <<ExportUnit("u1", "b", "t", "translated"),
       ExportUnit("u2", "a", "", "needs-translation")>>,
     <<ExportUnit("u1 ", "a", "t", "translated"), ExportUnit("u1", "b", "t", "translated")>>,
     <<ExportUnit("", "a", "t", "translated"), ExportUnit("u2", "b", "", "translated")>>,
     <<>> >>

\* source && target && state === 'translated' && xliffId
Eligible(unit) ==
  /\ unit.source # ""
  /\ unit.target # ""
  /\ unit.state = "translated"
  /\ TrimId(unit.id) # ""

\* The query finds nothing, whatever the container holds
existingNone(items, xliffId) == {}

\* SELECT * FROM c WHERE c.id = @id
existingItems(items, xliffId) == {item \in items : item.id = xliffId}

\* The item the export creates for a unit: its id and its partition key
ItemOf(unit) == [id |-> TrimId(unit.id), source |-> unit.source]

EInit ==
  /\ ePc = "idle"
  /\ eItems = {}
  /\ eFile = 0
  /\ eIdx = 0
  /\ eSuccess = 0
  /\ eSkipped = 0
  /\ eFailed = FALSE
  /\ eRuns = 0
  /\ eDone = {}
  /\ MOff
  /\ COff
  /\ TOff
  /\ QOff
  /\ SOff
  /\ ZOff

\* The runs that reported before the one that begins
Reported == IF ePc = "reported" THEN eDone \cup {<<eFile, eFailed>>} ELSE eDone

\* The command begins with a file that holds units
EStart ==
  /\ ePc \in {"idle", "reported", "ended"}
  /\ eRuns < MaxRuns
  /\ \E f \in 1..Len(ExportFiles) :
       /\ ExportFiles[f] # <<>>
       /\ eFile' = f
  /\ eDone' = Reported
  /\ ePc' = "units"
  /\ eIdx' = 0
  /\ eSuccess' = 0
  /\ eSkipped' = 0
  /\ eFailed' = FALSE
  /\ eRuns' = eRuns + 1
  /\ UNCHANGED <<eItems, mvars, cvars, tvars, qvars, svars, zvars>>

\* The command ends before the loop: a pick left with ESC, no endpoint or
\* key, a file without units, a file that cannot be read
EReturn ==
  /\ ePc \in {"idle", "reported", "ended"}
  /\ eRuns < MaxRuns
  /\ eDone' = Reported
  /\ ePc' = "ended"
  /\ eFile' \in {0} \cup {f \in 1..Len(ExportFiles) : ExportFiles[f] = <<>>}
  /\ eIdx' = 0
  /\ eSuccess' = 0
  /\ eSkipped' = 0
  /\ eFailed' = FALSE
  /\ eRuns' = eRuns + 1
  /\ UNCHANGED <<eItems, mvars, cvars, tvars, qvars, svars, zvars>>

InLoop == ePc = "units" /\ eIdx < Len(ExportFiles[eFile])

\* A unit that is not eligible is passed
EPass ==
  /\ InLoop
  /\ ~Eligible(ExportFiles[eFile][eIdx + 1])
  /\ eIdx' = eIdx + 1
  /\ UNCHANGED <<ePc, eItems, eFile, eSuccess, eSkipped, eFailed, eRuns, eDone, mvars,
                 cvars, tvars, qvars, svars, zvars>>

\* The query finds an item with the id: the unit is counted as skipped
ESkip ==
  /\ InLoop
  /\ Eligible(ExportFiles[eFile][eIdx + 1])
  /\ existingItems(eItems, TrimId(ExportFiles[eFile][eIdx + 1].id)) # {}
  /\ eSkipped' = eSkipped + 1
  /\ eIdx' = eIdx + 1
  /\ UNCHANGED <<ePc, eItems, eFile, eSuccess, eFailed, eRuns, eDone, mvars, cvars,
                 tvars, qvars, svars, zvars>>

\* The query finds nothing and the container takes the item
ECreate ==
  /\ InLoop
  /\ Eligible(ExportFiles[eFile][eIdx + 1])
  /\ existingItems(eItems, TrimId(ExportFiles[eFile][eIdx + 1].id)) = {}
  /\ ItemOf(ExportFiles[eFile][eIdx + 1]) \notin eItems
  /\ eItems' = eItems \cup {ItemOf(ExportFiles[eFile][eIdx + 1])}
  /\ eSuccess' = eSuccess + 1
  /\ eIdx' = eIdx + 1
  /\ UNCHANGED <<ePc, eFile, eSkipped, eFailed, eRuns, eDone, mvars, cvars, tvars,
                 qvars, svars, zvars>>

\* The query throws: the catch logs it and the unit is counted nowhere
EQueryThrows ==
  /\ InLoop
  /\ Eligible(ExportFiles[eFile][eIdx + 1])
  /\ eFailed' = TRUE
  /\ eIdx' = eIdx + 1
  /\ UNCHANGED <<ePc, eItems, eFile, eSuccess, eSkipped, eRuns, eDone, mvars, cvars,
                 tvars, qvars, svars, zvars>>

\* The query finds nothing and create throws: the container refuses the
\* item, or it took it and the answer was lost
ECreateThrows ==
  /\ InLoop
  /\ Eligible(ExportFiles[eFile][eIdx + 1])
  /\ existingItems(eItems, TrimId(ExportFiles[eFile][eIdx + 1].id)) = {}
  /\ \/ eItems' = eItems
     \/ eItems' = eItems \cup {ItemOf(ExportFiles[eFile][eIdx + 1])}
  /\ eFailed' = TRUE
  /\ eIdx' = eIdx + 1
  /\ UNCHANGED <<ePc, eFile, eSuccess, eSkipped, eRuns, eDone, mvars, cvars, tvars,
                 qvars, svars, zvars>>

\* After the last unit the counts are shown
EReport ==
  /\ ePc = "units"
  /\ eIdx = Len(ExportFiles[eFile])
  /\ ePc' = "reported"
  /\ UNCHANGED <<eItems, eFile, eIdx, eSuccess, eSkipped, eFailed, eRuns, eDone, mvars,
                 cvars, tvars, qvars, svars, zvars>>

ENext == EStart \/ EReturn \/ EPass \/ ESkip \/ ECreate \/ EQueryThrows \/ ECreateThrows \/ EReport

SpecExport == EInit /\ [][ENext]_vars

\* No two items of the container have the same id
OnePerId == \A i, j \in eItems : i.id = j.id => i = j

EligibleCount(f) == Cardinality({k \in 1..Len(ExportFiles[f]) : Eligible(ExportFiles[f][k])})

toFixed2(n, d) == (2 * n + d) \div (2 * d)

\* The clamp lets a confidence of 1.00 through
clampConfidenceTo1(finite, n, d) ==
  IF ~finite THEN 70
  ELSE IF toFixed2(n, d) > 100 THEN 100
  ELSE IF toFixed2(n, d) < 0 THEN 0 ELSE toFixed2(n, d)

\* clampConfidence of the value n / d hundredths, or of a value that is
\* not finite
clampConfidence(finite, n, d) ==
  IF ~finite THEN 70
  ELSE IF toFixed2(n, d) > 99 THEN 99
  ELSE IF toFixed2(n, d) < 0 THEN 0 ELSE toFixed2(n, d)

\* Math.exp of a logprob: a probability in thousandths, Infinity for the
\* logprob Infinity and NaN for the logprob NaN
Pr(thousandths) == <<"finite", thousandths>>

P_INFINITY == <<"Infinity", 0>>

P_NAN == <<"NaN", 0>>

IsFiniteProb(p) == p[1] = "finite"

RECURSIVE SumProbs(_)
SumProbs(probabilities) ==
  IF probabilities = <<>> THEN 0 ELSE Head(probabilities)[2] + SumProbs(Tail(probabilities))

MinProb(probabilities) ==
  CHOOSE p \in {probabilities[i][2] : i \in 1..Len(probabilities)} :
    \A i \in 1..Len(probabilities) : p <= probabilities[i][2]

\* calculateLogprobConfidence: 0.7 without logprobs, else the clamp of
\* avgProb * 0.7 + minProb * 0.3
calculateLogprobConfidence(probabilities) ==
  IF probabilities = <<>> THEN 70
  ELSE IF \E i \in 1..Len(probabilities) : ~IsFiniteProb(probabilities[i])
  THEN clampConfidence(FALSE, 0, 1)
  ELSE clampConfidence(TRUE,
                       7 * SumProbs(probabilities)
                         + 3 * Len(probabilities) * MinProb(probabilities),
                       100 * Len(probabilities))

\* calculatePlaceholderScore: the share of the placeholders of the source
\* the translation holds, as numerator and denominator
calculatePlaceholderScore(placeholders, target) ==
  IF placeholders = {} THEN <<1, 1>>
  ELSE <<Cardinality(placeholders \cap target), Cardinality(placeholders)>>

\* combinedConfidence of a choice
combinedConfidence(text, choice) ==
  clampConfidence(TRUE,
                  calculateLogprobConfidence(choice.probabilities)
                    * (85 * calculatePlaceholderScore(text, choice.words)[2]
                       + 15 * calculatePlaceholderScore(text, choice.words)[1]),
                  100 * calculatePlaceholderScore(text, choice.words)[2])

\* jaccard of two token sets, as numerator and denominator
jaccard(a, b) ==
  IF a = {} /\ b = {} THEN <<1, 1>>
  ELSE IF a = {} \/ b = {} THEN <<0, 1>>
  ELSE <<Cardinality(a \cap b), Cardinality(a \cup b)>>

\* The sum of the jaccard of set i with the sets from j on, other than i
RECURSIVE SumJaccard(_, _, _)
AddFraction(x, y) == <<x[1] * y[2] + y[1] * x[2], x[2] * y[2]>>

SumJaccard(tokenSets, i, j) ==
  IF j > Len(tokenSets) THEN <<0, 1>>
  ELSE IF i = j THEN SumJaccard(tokenSets, i, j + 1)
  ELSE AddFraction(jaccard(tokenSets[i], tokenSets[j]), SumJaccard(tokenSets, i, j + 1))

\* calculateAgreementScores, score by score
agreementScore(tokenSets, i) ==
  IF Len(tokenSets) <= 1 THEN <<1, 1>>
  ELSE <<SumJaccard(tokenSets, i, 1)[1],
         SumJaccard(tokenSets, i, 1)[2] * (Len(tokenSets) - 1)>>

\* results[i].confidence after the agreement multiplier
agreedConfidence(confidence, agreement) ==
  clampConfidence(TRUE, confidence * (80 * agreement[2] + 20 * agreement[1]),
                  100 * agreement[2])

\* The words of a translation: placeholders "%1", "{0}" and the words "x", "y"
Choice(probabilities, words) == [probabilities |-> probabilities, words |-> words]

ProbabilityLists ==
  {<<>>, <<Pr(1000)>>, <<Pr(1000), Pr(1000)>>, <<Pr(500), Pr(1000)>>, <<Pr(0)>>,
   <<Pr(2000)>>, <<P_INFINITY>>, <<P_NAN, Pr(500)>>}

WordSets == {{}, {"x"}, {"x", "%1"}, {"x", "y", "%1"}, {"y", "%1", "{0}"}}

Choices == {Choice(p, w) : p \in ProbabilityLists, w \in WordSets}

SureChoice == Choice(<<Pr(1000)>>, {"x", "%1"})

\* The responses: no choice, one choice, two choices, and three choices of
\* which two are sure
Responses ==
  {<<>>} \cup {<<c>> : c \in Choices} \cup {<<SureChoice, c>> : c \in Choices}
    \cup {<<c, SureChoice>> : c \in Choices}
    \cup {<<SureChoice, c, SureChoice>> : c \in Choices}

\* The confidences the store holds for an exact match
StoredConfidences == {90, 100}

KInit ==
  /\ kPc = "idle"
  /\ kText \in {{}, {"%1"}, {"%1", "{0}"}}
  /\ kResponse \in Responses
  /\ kResults = <<>>
  /\ MOff
  /\ COff
  /\ TOff
  /\ QOff
  /\ SOff
  /\ EOff
  /\ NOff
  /\ YOff

\* translateText returns the exact match of the store
KExact ==
  /\ kPc = "idle"
  /\ \E confidence \in StoredConfidences :
       kResults' = <<[translated |-> {"x"}, confidence |-> confidence, source |-> "cosmos"]>>
  /\ kPc' = "returned"
  /\ UNCHANGED <<kText, kResponse, mvars, cvars, tvars, qvars, svars, evars, nvars, yvars>>

\* callAITranslation maps the choices of the response to results
KChoices ==
  /\ kPc = "idle"
  /\ kResults' = [i \in 1..Len(kResponse) |->
                    [translated |-> kResponse[i].words,
                     confidence |-> combinedConfidence(kText, kResponse[i]),
                     source |-> "aiTranslator"]]
  /\ kPc' = "choices"
  /\ UNCHANGED <<kText, kResponse, mvars, cvars, tvars, qvars, svars, evars, nvars, yvars>>

\* callAITranslation applies the agreement scores and returns
KAgreement ==
  /\ kPc = "choices"
  /\ kResults' = [i \in 1..Len(kResults) |->
                    [kResults[i] EXCEPT !.confidence =
                       agreedConfidence(kResults[i].confidence,
                                        agreementScore([j \in 1..Len(kResults) |->
                                                          kResults[j].translated], i))]]
  /\ kPc' = "returned"
  /\ UNCHANGED <<kText, kResponse, mvars, cvars, tvars, qvars, svars, evars, nvars, yvars>>

\* The request fails and callAITranslation throws
KThrows ==
  /\ kPc = "idle"
  /\ kPc' = "thrown"
  /\ UNCHANGED <<kText, kResponse, kResults, mvars, cvars, tvars, qvars, svars, evars, nvars, yvars>>

KNext == KExact \/ KChoices \/ KAgreement \/ KThrows

SpecConfidence == KInit /\ [][KNext]_vars

\* C21: every result of the backend path has a confidence from 0 to 0.99,
\* after the placeholder multiplier and after the agreement multiplier;
\* a result with confidence 1.0 comes from the exact lookup.
C21_BelowOne ==
  \A i \in 1..Len(kResults) :
    /\ kResults[i].source = "aiTranslator" => kResults[i].confidence \in 0..99
    /\ kResults[i].confidence = 100 => kResults[i].source = "cosmos"

\* A sure choice that holds every placeholder and agrees with the other
\* choice was returned with the highest confidence the clamp allows
C21_Witness ==
  /\ kPc = "returned"
  /\ Len(kResults) = 2
  /\ kResults[1].source = "aiTranslator"
  /\ kResults[1].confidence = 99
  /\ kResults[2].confidence < 99

\* ---------------------------------------------------------------------
\* SpecNormalize: normalizeText applied to a string and to its own result
\* ---------------------------------------------------------------------

\* The pieces a string is made of
MaxPieces == 3

Pieces ==
  {E_AMP, E_LT, E_GT, R_DEC, <<Ch("&")>>, <<Ch("<")>>, <<Ch(">")>>, <<SP>>, <<Ch("x")>>,
   <<Ch("A")>>, <<Ch("l"), Ch("t"), Ch(";")>>}

RECURSIVE Pieced(_)
Pieced(n) ==
  IF n = 0 THEN {<<>>}
  ELSE Pieced(n - 1) \cup {s \o p : s \in Pieced(n - 1), p \in Pieces}

NInit ==
  /\ nPc = "idle"
  /\ nText \in Pieced(MaxPieces)
  /\ nOnce = <<>>
  /\ nTwice = <<>>
  /\ MOff
  /\ COff
  /\ TOff
  /\ QOff
  /\ SOff
  /\ EOff
  /\ KOff
  /\ YOff

\* normalizeText(s)
NNormalize ==
  /\ nPc = "idle"
  /\ nOnce' = normalizeText(nText)
  /\ nPc' = "once"
  /\ UNCHANGED <<nText, nTwice, mvars, cvars, tvars, qvars, svars, evars, kvars, yvars>>

\* normalizeText(normalizeText(s))
NNormalizeAgain ==
  /\ nPc = "once"
  /\ nTwice' = normalizeText(nOnce)
  /\ nPc' = "twice"
  /\ UNCHANGED <<nText, nOnce, mvars, cvars, tvars, qvars, svars, evars, kvars, yvars>>

NNext == NNormalize \/ NNormalizeAgain

SpecNormalize == NInit /\ [][NNext]_vars

\* C22: normalizeText of the result of normalizeText is that result, for
\* every string, doubly escaped entities included.
C22_Idempotent == nPc = "twice" => nTwice = nOnce

\* The block is of a table or a table extension
TableBlock(block) ==
  LowerStr(parseTransUnitId(BlockId(block)).objectType) \in {"table", "tableextension"}

Returned(block, cs) == \E i \in 1..Len(cs) : cs[i].unitId = BlockId(block)

\* C23: when a candidate of a page or page extension survived the hard
\* filters, every surviving candidate that is of neither a table nor a
\* table extension is in the list returned.
C23_OnlyTablesRemoved ==
  (qPc # "init" /\ SomePageSurvives(BlocksOf(qContent), qContext)) =>
    \A k \in 1..Len(BlocksOf(qContent)) :
      (Survives(BlocksOf(qContent)[k], qContext) /\ ~TableBlock(BlocksOf(qContent)[k]))
        => Returned(BlocksOf(qContent)[k], qResult.candidates)

\* The weight of the text a candidate was matched by, in tenths
WeightOf(matchSource) ==
  CASE matchSource = "translatedText" -> 10
    [] matchSource = "innerText" -> 9
    [] matchSource = "placeholder" -> 7
    [] OTHER -> 8

\* The base, property and element-type terms of a candidate
PlainTerms(c, context) ==
  500 + 10 * WeightOf(c.matchSource)
    + (IF getExpectedPropertyId(context) # "" /\ c.propertyId = getExpectedPropertyId(context)
       THEN 200 ELSE 0)
    + (IF /\ c.elementType # ""
          /\ matchesAnyElementType(c.elementType, getContextElementTypes(context))
       THEN 150 ELSE 0)

\* The bonus of a Table Field, or of a Page Control, under a captured Column
ColumnBonus(c, context) ==
  IF LowerStr(context.elementType) # "column" THEN 0
  ELSE IF LowerStr(c.objectType) \in {"table", "tableextension"} /\ c.elementType = "Field"
  THEN 150
  ELSE IF LowerStr(c.objectType) \in {"page", "pageextension"} /\ c.elementType = "Control"
  THEN 100
  ELSE 0

\* C24: a candidate returned by findXliffCandidatesFromDomWithDiagnostics
\* carries, on top of the base, property and element-type terms, 0.15 when
\* the captured element is a Column and the unit a Table or TableExtension
\* Field, and 0.10 when the unit is a Page or PageExtension Control, up to
\* the clamp at 1.
C24_ColumnBonus ==
  qPc # "init" =>
    \A i \in 1..Len(qResult.candidates) :
      qResult.candidates[i].confidence
        >= Min(1000, PlainTerms(qResult.candidates[i], qContext)
                       + ColumnBonus(qResult.candidates[i], qContext))

\* C25: findXliffCandidatesInternalWithDiagnostics returns the candidates
\* findXliffCandidatesInternal returns for the same document, texts and
\* context: the same unit ids with the same confidences in the same order.
C25_SameCandidates ==
  qPc = "compared" =>
    /\ Len(qResult.candidates) = Len(qInternal)
    /\ \A i \in 1..Len(qInternal) :
         /\ qResult.candidates[i].unitId = qInternal[i].unitId
         /\ qResult.candidates[i].confidence = qInternal[i].confidence

\* The block has a source or a target element
HasSourceOrTarget(block) ==
  \/ sourceRe(block) # <<0, 0>>
  \/ targetRe(block) # <<0, 0>>
  \/ targetSelfClosingRe(block) # 0

\* The block holds a target whose unescaped content is the text
TargetIs(block, text) ==
  /\ targetRe(block) # <<0, 0>>
  /\ xmlUnescape(SubSeq(block, targetRe(block)[1] + 1, targetRe(block)[2] - 1)) = text

\* C26: after applyUpdatesToXliff every trans-unit whose id is a key of the
\* update map and that has a source or a target element holds a target
\* whose unescaped content is the correction text, also when the previous
\* target differed from it in letter case or whitespace only.
C26_Applied ==
  mPc # "init" =>
    \A k \in 1..Len(BlocksOf(mDoc)) :
      (BlockId(BlocksOf(mDoc)[k]) \in DOMAIN mUpdates /\ HasSourceOrTarget(BlocksOf(mDoc)[k]))
        => TargetIs(BlocksOf(mFirst.text)[k], mUpdates[BlockId(BlocksOf(mDoc)[k])].translated)

\* ---------------------------------------------------------------------
\* SpecSync: the runs of applyCorrectionsFromCosmos against one XLIFF file
\* and one container, while corrections are being stored
\* ---------------------------------------------------------------------

\* The time runs from 0 to MaxClock
MaxClock == 3

CorrectionTypes == {"UserCorrection", "Microsoft"}

FilterChoices == {"UserCorrection only", "All items"}

\* The WHERE clause of buildQuery on a record with a target
Selected(record, choice, sinceTimestamp) ==
  /\ choice = "UserCorrection only" => record.translationType = "UserCorrection"
  /\ sinceTimestamp # -1 => record.timestamp > sinceTimestamp

YOthers == <<mvars, cvars, tvars, qvars, svars, evars, kvars, nvars>>

YInit ==
  /\ yPc = "idle"
  /\ yClock = 0
  /\ yStore = {}
  /\ yLastSync = -1
  /\ yFilter = -1
  /\ yChoice = ""
  /\ yFetched = {}
  /\ yLeft = {}
  /\ yQueried = -1
  /\ yPrevious = -1
  /\ MOff
  /\ COff
  /\ TOff
  /\ QOff
  /\ SOff
  /\ EOff
  /\ KOff
  /\ NOff

\* Time passes
YTick ==
  /\ yClock < MaxClock
  /\ yClock' = yClock + 1
  /\ UNCHANGED <<yPc, yStore, yLastSync, yFilter, yChoice, yFetched, yLeft, yQueried,
                 yPrevious, YOthers>>

\* A correction is stored in the container, with the time as its timestamp
YStore ==
  /\ \A r \in yStore : r.timestamp # yClock
  /\ \E type \in CorrectionTypes :
       yStore' = yStore \cup {[timestamp |-> yClock, translationType |-> type]}
  /\ UNCHANGED <<yPc, yClock, yLastSync, yFilter, yChoice, yFetched, yLeft, yQueried,
                 yPrevious, YOthers>>

\* A run reads the sync record, asks for the filters and queries the store
YQuery ==
  /\ yPc = "idle"
  /\ \E timestampFilter \in {-1, yLastSync}, choice \in FilterChoices :
       /\ yFilter' = timestampFilter
       /\ yChoice' = choice
       /\ yFetched' = {r \in yStore : Selected(r, choice, timestampFilter)}
       /\ yLeft' = {r \in yStore : ~Selected(r, choice, timestampFilter)}
  /\ yQueried' = yClock
  /\ yPrevious' = yQueried
  /\ yPc' = "queried"
  /\ UNCHANGED <<yClock, yStore, yLastSync, YOthers>>

\* The run ends before updateSyncTimestamp: the query failed or returned
\* nothing, no unit matched, or the upsert of the sync record failed
YReturn ==
  /\ yPc = "queried"
  /\ yPc' = "idle"
  /\ UNCHANGED <<yClock, yStore, yLastSync, yFilter, yChoice, yFetched, yLeft, yQueried,
                 yPrevious, YOthers>>

\* updateSyncTimestamp: the sync record takes the time of the upsert
YUpdateSyncTimestamp ==
  /\ yPc = "queried"
  /\ yFetched # {}
  /\ yLastSync' = yClock
  /\ yPc' = "idle"
  /\ UNCHANGED <<yClock, yStore, yFilter, yChoice, yFetched, yLeft, yQueried, yPrevious,
                 YOthers>>

YNext == YTick \/ YStore \/ YQuery \/ YReturn \/ YUpdateSyncTimestamp

SpecSync == YInit /\ [][YNext]_vars

\* C27: the "only new corrections" query of a run returns every record of
\* the store that passes the correction filter and whose timestamp is later
\* than the moment the previous run queried the store, also a record stored
\* while the previous run was still executing.
C27_NoneLost ==
  (yPc = "queried" /\ yFilter # -1 /\ yPrevious # -1) =>
    \A r \in yLeft : ~(Selected(r, yChoice, -1) /\ r.timestamp > yPrevious)

\* The text before and the text after the unit at range are in the document
\* as they were
OutsideKept(before, after, range) ==
  /\ Len(after) >= Len(before) - (range[2] - range[1] + 1)
  /\ SubSeq(after, 1, range[1] - 1) = SubSeq(before, 1, range[1] - 1)
  /\ SubSeq(after, Len(after) - (Len(before) - range[2]) + 1, Len(after))
       = SubSeq(before, range[2] + 1, Len(before))

\* C28: when the document was edited while translateSelectionCommand was
\* waiting and the command then wrote with replaceBlock, the write replaced
\* the trans-unit that was under the cursor: the text before that unit and the
\* text after it, the edit included, are in the document as the user left them.
C28_NoStaleWrite ==
  (sPc = "done" /\ sOk = "false" /\ sEdited # sBefore) =>
    OutsideKept(sEdited, sDoc, UnitRanges(sEdited, 0)[CursorUnit])

\* The entry of the index that answered the text
HitEntry(text) == tIndex[Lower(normXml(Trim(text)))]

\* The unit of the open document the entry was taken from has a target in
\* state "needs-translation"
FromUntranslated(entry) ==
  /\ "unitId" \in DOMAIN entry
  /\ \E unit \in OpenUnits :
       /\ unit[1][2] = entry.unitId
       /\ TargetNeedsTranslation(unit)

\* C29: no text of a batch is answered from the open-file index with the
\* target text of a unit whose target has state "needs-translation".
C29_OnlyTranslations ==
  \A i \in 1..Len(tOut) :
    tOut[i].source = "file" => ~FromUntranslated(HitEntry(tBatch[i]))

\* The stored element context of the item names the ToolTip property and has
\* no isToolTip field
DeclaresToolTip(item) ==
  /\ LowerStr(item.elementContext.propertyType) = "tooltip"
  /\ item.elementContext.isToolTip = "undefined"

\* C30: for every resource the loop has processed whose stored element
\* context declares propertyType "ToolTip" and has no isToolTip field, the
\* expected property derived from the context the command builds is the
\* ToolTip property id, and every unit matched for the resource has the
\* ToolTip property id.
C30_ToolTipExpected ==
  \A i \in 1..Len(cReport) :
    DeclaresToolTip(cQuery.resources[i]) =>
      /\ getExpectedPropertyId(buildDomContext(cQuery.resources[i],
                                               toText(cQuery.resources[i].source)))
           = PROPERTY_TOOLTIP
      /\ \A unitId \in cReport[i].matchedUnits : unitId[Len(unitId)] = PROPERTY_TOOLTIP

====
